---- MODULE Spec2Model ----
(***************************************************************************)
(* Model of the dependency-tree cutter of syntax_experiments.              *)
(*                                                                         *)
(*  - syntax_tree_operations.py : get_prop, get_nodes_diff,                *)
(*    get_nodes_by_attributes, get_shortest_paths, remove_deprel,          *)
(*    remove_brackets, remove_deprel_ennekui, add_blanks, remove_removed,  *)
(*    is_equal (pure functions on graphs and lists, here operators);       *)
(*  - deprelCutter.py : Cutter.__init__, pre_filter, filter, cutSentence   *)
(*    and the sentence loop of Cutter.cut (here the state machine Spec);   *)
(*  - syntax_sketch.py : subtree_size, clean_clause, syntax_sketch,        *)
(*    compute_sketches, rand_group_sketches, extract_sketches,             *)
(*    remove_sketches.                                                     *)
(*                                                                         *)
(* The pure functions are called on their own in the specifications        *)
(* SpecTree, SpecOps, SpecSeq, SpecSketch, SpecCorpus, SpecFilter,         *)
(* SpecShuffle, SpecClean and SpecCutTwice; SpecBrackets runs the loop of  *)
(* remove_brackets pass by pass, and SpecCtor is the constructor of the    *)
(* Cutter followed by Spec.                                                *)
(*                                                                         *)
(* Strings are sequences of one-character strings, so that the substring   *)
(* test of pre_filter/filter, the " ".join of get_prop and the upper()     *)
(* of the first character are computed, not assumed.                       *)
(***************************************************************************)
EXTENDS Integers, Sequences, FiniteSets, TLC

-----------------------------------------------------------------------------
(* Bounds of the model *)

\* largest number of tokens of a sentence
MaxNodes == 3
\* largest number of sentences the reader yields in one run
MaxSentences == 2

-----------------------------------------------------------------------------
(* Strings *)

\* dependency relation labels; "iobj" contains "obj" as a substring
obj  == <<"o", "b", "j">>
iobj == <<"i", "o", "b", "j">>
root == <<"r", "o", "o", "t">>
Labels == {obj, iobj, root}

\* the relation a run of Cutter.cut is asked to cut
CutDeprels == {obj}

\* the labels the analyzer gives in the model; the reader's annotation uses
\* all of Labels
AnalyzerLabels == {obj, root}

\* the surface forms of the sentences of the corpus, by length
FormSeqs(n) ==
  { [ i \in 1..n |-> w[((i - 1) % Len(w)) + 1] ] :
      w \in { << <<"m", "a">>, <<"K", "u">>, <<"x">> >>,
              << <<"E", "i">>, <<"o">>, <<"Y", "z">> >> } }

\* str.upper() on one character
UpperChar(c) ==
  CASE c = "m" -> "M" [] c = "o" -> "O" [] c = "x" -> "X"
    [] c = "a" -> "A" [] c = "u" -> "U" [] c = "i" -> "I" [] c = "z" -> "Z"
    [] OTHER -> c

\* " ".join(list)
RECURSIVE Join(_)
Join(words) ==
  IF words = <<>> THEN <<>>
  ELSE IF Len(words) = 1 THEN words[1]
  ELSE words[1] \o <<" ">> \o Join(Tail(words))

\* Python's  p in s  on strings
IsSubstring(p, s) ==
  \E i \in 0..(Len(s) - Len(p)) : SubSeq(s, i + 1, i + Len(p)) = p

Range(s) == { s[i] : i \in DOMAIN s }

SetMin(S) == CHOOSE x \in S : \A y \in S : x <= y

\* sorted(S) for a set of integers: its k-th element has k - 1 smaller ones
Sorted(S) ==
  [ k \in 1..Cardinality(S) |-> CHOOSE x \in S : Cardinality({ y \in S : y < x }) = k - 1 ]

-----------------------------------------------------------------------------
(* Dependency graphs: node 0 is the synthetic root, every token i is a     *)
(* node with attributes form and deprel and an edge head(i) -> i.          *)

\* a sentence as the reader or the analyzer yields it: tokens 1..n
Tokens(s) == 1..Len(s.head)

\* the directed graph of a sentence
SentenceGraph(s) ==
  [ nodes  |-> {0} \cup Tokens(s),
    edges  |-> { <<s.head[i], i>> : i \in Tokens(s) },
    form   |-> s.form,
    deprel |-> s.deprel ]

(* A function is handed a reference to the caller's object; its changes  *)
(* act on the object its local name is bound to.                          *)

\* the local name left bound to the caller's object: no copy is made
same_object(object) == "argument"

\* object.copy(): the local name is bound to a new object of the same content
copy(object) == "copy"

\* the caller's object and the returned value, once the function has
\* turned the object its local name is bound to into result
after_call(object, local, result) ==
  [ argument |-> IF local = "argument" THEN result ELSE object,
    returned |-> result ]

\* the attribute attr without the nodes gone
attr_without(attr, gone) == [ i \in (DOMAIN attr) \ gone |-> attr[i] ]

\* for n in ns: G.remove_node(n)   (ns without repetitions): the nodes,
\* their attributes and their incident edges go; the graphs of the
\* analyzer's full output carry the attribute lemma as well
remove_nodes(G, ns) ==
  LET gone == Range(ns)
      nodes == G.nodes \ gone
      edges == { e \in G.edges : e[1] \notin gone /\ e[2] \notin gone }
  IN  IF "lemma" \in DOMAIN G
      THEN [ nodes |-> nodes, edges |-> edges, form |-> attr_without(G.form, gone),
             deprel |-> attr_without(G.deprel, gone),
             lemma |-> attr_without(G.lemma, gone) ]
      ELSE [ nodes |-> nodes, edges |-> edges, form |-> attr_without(G.form, gone),
             deprel |-> attr_without(G.deprel, gone) ]

\* G.remove_node(n)
remove_node(G, n) == remove_nodes(G, <<n>>)

\* get_prop(graph, name): the attribute of the nodes > 0 in id order
get_prop_form(G) ==
  LET ids == Sorted(G.nodes \ {0}) IN [ k \in 1..Len(ids) |-> G.form[ids[k]] ]

get_prop_deprel(G) ==
  LET ids == Sorted(G.nodes \ {0}) IN [ k \in 1..Len(ids) |-> G.deprel[ids[k]] ]

\* get_nodes_diff(graph1, graph2): nodes of graph1 missing in graph2
get_nodes_diff(G1, G2) == Sorted({ n \in G1.nodes : n \notin G2.nodes })

\* get_nodes_by_attributes with the comparison turned round: the nodes whose
\* attribute differs from the value
get_nodes_by_attributes_differing(G, attrvalue) ==
  Sorted({ n \in DOMAIN G.deprel : G.deprel[n] # attrvalue })

\* get_nodes_by_attributes(G, 'deprel', value)
get_nodes_by_attributes(G, attrvalue) ==
  Sorted({ n \in DOMAIN G.deprel : G.deprel[n] = attrvalue })

\* nodes reachable from the given set along the directed edges
RECURSIVE Reach(_, _)
Reach(G, seen) ==
  LET more == { e[2] : e \in { f \in G.edges : f[1] \in seen } } \ seen
  IN  IF more = {} THEN seen ELSE Reach(G, seen \cup more)

\* get_shortest_paths with the keys of the matrix taken for the nodes
\* connected to node 0: every node is a key
get_shortest_paths_keys(G) == G.nodes

\* get_shortest_paths(G)['matrix'][0]: the nodes with a path from node 0
get_shortest_paths(G) == Reach(G, {0})

\* the list cut down to its first label
first_label(list) == IF list = <<>> THEN list ELSE <<list[1]>>

\* list(set(rem_deprels)): the list without its repetitions
Unique(list) ==
  LET first == Sorted({ i \in DOMAIN list : \A j \in 1..(i - 1) : list[j] # list[i] })
  IN  [ k \in 1..Len(first) |-> list[first[k]] ]

\* rem_deprel_nodes collected for the first label only
nodes_of_first_deprel(G, labels) ==
  IF labels = <<>> THEN <<>> ELSE get_nodes_by_attributes(G, Head(labels))

\* rem_deprel_nodes: the nodes of each label, one label after the other
RECURSIVE nodes_of_deprels(_, _)
nodes_of_deprels(G, labels) ==
  IF labels = <<>> THEN <<>>
  ELSE get_nodes_by_attributes(G, Head(labels)) \o nodes_of_deprels(G, Tail(labels))

\* remove_deprel(G, rem_deprels): rem_deprels a list of labels
remove_deprel(G, rem_deprels) ==
  LET rem_deprel_nodes == nodes_of_deprels(G, Unique(rem_deprels))
      G1 == remove_nodes(G, rem_deprel_nodes)
      connected == get_shortest_paths(G1)
      orphans == Sorted({ node \in G1.nodes : node > 0 /\ node \notin connected })
  IN  remove_nodes(G1, orphans)

\* the list without the elements of gone
list_without(list, gone) ==
  LET kept == Sorted({ i \in DOMAIN list : list[i] \notin Range(gone) })
  IN  [ k \in 1..Len(kept) |-> list[kept[k]] ]

\* one pass of remove_brackets over the nodes still left (lines 139-165):
\* the list remove when the for loop is left, by break or at its end
RECURSIVE bracket_pass(_, _, _, _)
bracket_pass(G, left, in_b, remove) ==
  IF left = <<>> THEN (IF in_b THEN <<>> ELSE remove)
  ELSE LET n == Head(left)
           token == G.form[n]
       IN  IF n = 0 THEN bracket_pass(G, Tail(left), in_b, remove)
           ELSE IF ~in_b /\ token = <<"(">>
                THEN bracket_pass(G, Tail(left), TRUE, Append(remove, n))
           ELSE IF in_b /\ token = <<"(">>
                THEN bracket_pass(G, Tail(left), TRUE, <<n>>)
           ELSE IF in_b /\ token = <<")">>
                THEN Append(remove, n)
           ELSE IF in_b
                THEN bracket_pass(G, Tail(left), TRUE, Append(remove, n))
           ELSE bracket_pass(G, Tail(left), in_b, remove)

\* the while loop left after its first pass: one span at most is removed
bracket_loop_once(G, leftNodes1, leftNodes2, nodes_to_remove) ==
  nodes_to_remove \o bracket_pass(G, leftNodes2, FALSE, <<>>)

\* the while loop of remove_brackets (lines 134-168): nodes_to_remove when
\* a pass has left the list of nodes as long as it was
RECURSIVE bracket_loop(_, _, _, _)
bracket_loop(G, leftNodes1, leftNodes2, nodes_to_remove) ==
  IF Len(leftNodes1) = Len(leftNodes2) THEN nodes_to_remove
  ELSE LET remove == bracket_pass(G, leftNodes2, FALSE, <<>>)
       IN  bracket_loop(G, leftNodes2, list_without(leftNodes2, remove),
                        nodes_to_remove \o remove)

\* remove_brackets(inputG)
remove_brackets(inputG) ==
  remove_nodes(inputG, bracket_loop(inputG, <<>>, Sorted(inputG.nodes), <<>>))

\* the lemmas remove_deprel_ennekui looks for (line 68)
ennekui_lemmas == {"rohkem", "vähem", "samapalju", "enam"}

\* lines 65-70 of remove_deprel_ennekui: the nodes of the relation, one
\* after the other, removed if the lemma is one of the four and the next
\* node is there with lemma kui
RECURSIVE ennekui_remove(_, _)
ennekui_remove(G, rem_deprel_nodes) ==
  IF rem_deprel_nodes = <<>> THEN G
  ELSE LET n == Head(rem_deprel_nodes)
           G1 == IF G.lemma[n] \in ennekui_lemmas
                    /\ (n + 1) \in G.nodes /\ G.lemma[n + 1] = "kui"
                 THEN remove_node(G, n)
                 ELSE G
       IN  ennekui_remove(G1, Tail(rem_deprel_nodes))

\* remove_deprel_ennekui(inputG, rem_deprel) up to line 73, where the name
\* graphFunctions is looked up: the module neither defines nor imports it
remove_deprel_ennekui(inputG, rem_deprel) ==
  [ G |-> ennekui_remove(inputG, get_nodes_by_attributes(inputG, rem_deprel)),
    raises |-> "NameError" ]

-----------------------------------------------------------------------------
(* List helpers of syntax_tree_operations.py *)

\* list.insert(i, x) for i >= 0: an index past the end appends
list_insert(a, i, x) ==
  LET pos == IF i > Len(a) THEN Len(a) ELSE i
  IN  SubSeq(a, 1, pos) \o <<x>> \o SubSeq(a, pos + 1, Len(a))

\* list.pop(i) for 0 <= i < len(a), the list that is left
list_pop(a, i) == SubSeq(a, 1, i) \o SubSeq(a, i + 2, Len(a))

\* reversed(s)
Reversed(s) == [ k \in 1..Len(s) |-> s[Len(s) + 1 - k] ]

\* for ind in inds: array.insert(ind, blank): the position taken as 0-based
RECURSIVE insert_each_zero_based(_, _, _)
insert_each_zero_based(array, inds, blank) ==
  IF inds = <<>> THEN array
  ELSE insert_each_zero_based(list_insert(array, Head(inds), blank), Tail(inds), blank)

\* for ind in inds: array.insert(ind-1, blank)
RECURSIVE insert_each(_, _, _)
insert_each(array, inds, blank) ==
  IF inds = <<>> THEN array
  ELSE insert_each(list_insert(array, Head(inds) - 1, blank), Tail(inds), blank)

\* for ind in inds: array.pop(ind-1)
RECURSIVE pop_each(_, _)
pop_each(array, inds) ==
  IF inds = <<>> THEN array
  ELSE pop_each(list_pop(array, Head(inds) - 1), Tail(inds))

\* for ind in inds: array.pop(ind-1) meets an index that is not in the list
RECURSIVE pop_raises(_, _)
pop_raises(array, inds) ==
  IF inds = <<>> THEN FALSE
  ELSE IF Head(inds) - 1 >= Len(array) THEN TRUE
  ELSE pop_raises(list_pop(array, Head(inds) - 1), Tail(inds))

\* remove_removed(a, indexes) raises IndexError
remove_removed_raises(a, indexes) == pop_raises(a, Reversed(Sorted(Range(indexes))))

\* add_blanks going through indexes as they come, without sorted()
add_blanks_unsorted(a, indexes, blank) == insert_each(a, indexes, blank)

\* add_blanks(a, indexes, blank): the indexes in ascending order, each one
\* a position of the list as grown so far
add_blanks(a, indexes, blank) == insert_each(a, Sorted(Range(indexes)), blank)

\* remove_removed popping in ascending order: an earlier pop shifts the later
\* positions
remove_removed_ascending(a, indexes) == pop_each(a, Sorted(Range(indexes)))

\* remove_removed(a, indexes): the indexes in descending order
remove_removed(a, indexes) == pop_each(a, Reversed(Sorted(Range(indexes))))

\* is_equal(arr1, arr2)
is_equal(arr1, arr2) ==
  IF Len(arr1) # Len(arr2) THEN FALSE
  ELSE \A i \in 1..Len(arr1) : arr1[i] = arr2[i]

-----------------------------------------------------------------------------
(* Inputs: corpus sentences and analyzer results *)

\* head vectors of well-formed trees on tokens 1..n: one token has head 0
\* and every token reaches node 0 along its heads
WellFormed(h) ==
  /\ Cardinality({ i \in DOMAIN h : h[i] = 0 }) = 1
  /\ \A i \in DOMAIN h : h[i] # i
  /\ LET g == [ nodes |-> {0} \cup DOMAIN h,
                edges |-> { <<h[i], i>> : i \in DOMAIN h } ]
     IN  Reach(g, {0}) = g.nodes

HeadsOfLen == [ n \in 1..MaxNodes |-> { h \in [1..n -> 0..n] : WellFormed(h) } ]

Heads(n) == HeadsOfLen[n]

\* the annotated sentences a reader can yield
SentencesOfLen(n) ==
  { [ form |-> f, head |-> h, deprel |-> d ] :
      f \in FormSeqs(n), h \in Heads(n), d \in [1..n -> Labels] }

Sentences == UNION { SentencesOfLen(n) : n \in 1..MaxNodes }

\* the parses of a sentence of n tokens
ParsesOfLen ==
  [ n \in 1..MaxNodes |->
      { [ head |-> h, deprel |-> d ] :
          h \in Heads(n), d \in [1..n -> AnalyzerLabels] } ]

\* analyze_as_graph(text, tagger): the analyzer is opaque; on a text of
\* space-separated tokens it returns some well-formed tree over these tokens
analyze_as_graph(forms) ==
  { SentenceGraph([ form |-> forms, head |-> t.head, deprel |-> t.deprel ]) :
      t \in ParsesOfLen[Len(forms)] }

\* the relation sequences the analyzer can give for a shortened text
ReanalysisDeprels == UNION { [1..n -> AnalyzerLabels] : n \in 1..MaxNodes }

NoGraph == [ nodes |-> {}, edges |-> {}, form |-> <<>>, deprel |-> <<>> ]

-----------------------------------------------------------------------------
(* Cutter *)

\* the values a keyword argument of Cutter(...) can have
KwValues == {"absent", "True", "False"}
Kwargs ==
  [ use_prefilter : KwValues, use_filter : KwValues, use_original_syntax : KwValues ]

\* Cutter.__init__ reads kwargs['use_filter'] when 'use_original_syntax' is given
CtorRaises(kw) == kw.use_original_syntax # "absent" /\ kw.use_filter = "absent"

\* Cutter.__init__: the three policy flags of the constructed object
Cutter_init(kw) ==
  [ use_prefilter       |-> ~(kw.use_prefilter = "False"),
    use_filter          |-> ~(kw.use_filter = "False"),
    use_original_syntax |-> (kw.use_original_syntax # "absent"
                               /\ kw.use_filter = "True") ]

\* Cutter.pre_filter(G, deprel): TRUE when the sentence is to be skipped
pre_filter(G, deprel) ==
  LET deprel_pre == Join(get_prop_deprel(G)) IN  ~IsSubstring(deprel, deprel_pre)

\* Cutter.filter(G, deprel): TRUE when the sentence is to be skipped
filter(G, deprel) ==
  LET deprel_pre == Join(get_prop_deprel(G)) IN  ~IsSubstring(deprel, deprel_pre)

\* Cutter.cutSentence(G, deprel): remove_deprel with one label
cutSentence(G, deprel) == remove_deprel(G, <<deprel>>)

\* cut without the upper() of line 219: the text as it is
keep_case(text) == text

\* text_short[0].upper() + text_short[1:]  (text_short not empty)
Capitalize(text) == <<UpperChar(text[1])>> \o Tail(text)

Files == {"changed", "conserved", "constant", "stats"}

StatKeys ==
  << "proc_txt_no", "no_rem_dprels", "no_changed_syntax", "sentences_checked",
     "sentences_total", "sentences_ignored", "sentences_constant",
     "syntax_conserved", "syntax_changed" >>

\* stats = {} followed by the nine  stats[key] = 0
ZeroStats == [ k \in Range(StatKeys) |-> 0 ]

\* stats[key] += 1
Incr(st, key) == [ st EXCEPT ![key] = @ + 1 ]

\* a filter that skips the sentence without counting it
Ignored_uncounted(st) == st

\* stats['sentences_ignored'] += 1 of the two filters
Ignored(st) == Incr(st, "sentences_ignored")

\* cut without the CONSTANT test
is_constant_never(origin_text, short_text) == FALSE

\* the CONSTANT test: text_origin == text_short
is_constant(origin_text, short_text) == origin_text = short_text

\* a record group without its closing blank row
ConstantRows_unclosed(u) == << <<u, "O">>, <<u, "DepO">> >>

\* the record group of a CONSTANT sentence: row1, row3, emptyrow
ConstantRows(u) == << <<u, "O">>, <<u, "DepO">>, <<0, "">> >>

\* the record group of a re-analysed sentence: row1, row2, row3, row4, emptyrow
VerdictRows(u) == << <<u, "O">>, <<u, "S">>, <<u, "DepO">>, <<u, "DepS">>, <<0, "">> >>

\* f.writerow(cols)
HeaderRows == << <<0, "cols">> >>

-----------------------------------------------------------------------------
(* Syntax sketches (syntax_sketch.py). A clause is a record of aligned     *)
(* lists ids, postags, deprels, heads; a cleaned clause has root_loc, the  *)
(* 0-based indices of its roots, as well. Tags, relations and sketches are *)
(* strings, lists of characters.                                           *)

\* the characters of sketches in ascending code point order
CharOrder ==
  <<"(", ")", ":", "L", "P", "S", "V", "X", "[", "]",
    "b", "i", "j", "o", "r", "t", "Ü">>

\* the place of a character in that order
CodeRank(c) == CHOOSE k \in 1..Len(CharOrder) : CharOrder[k] = c

\* s < t for Python strings: code point by code point, a proper prefix first
StrLess(s, t) ==
  \E k \in 1..(Len(s) + 1) :
    /\ k <= Len(t)
    /\ \A m \in 1..(k - 1) : s[m] = t[m]
    /\ (k = Len(s) + 1 \/ CodeRank(s[k]) < CodeRank(t[k]))

\* sorted(list) for a list of strings
RECURSIVE sorted_strings(_)
sorted_strings(list) ==
  IF list = <<>> THEN <<>>
  ELSE LET m == SetMin({ i \in DOMAIN list : \A j \in DOMAIN list : ~StrLess(list[j], list[i]) })
       IN  <<list[m]>> \o sorted_strings(SubSeq(list, 1, m - 1) \o SubSeq(list, m + 1, Len(list)))

\* ''.join(list)
RECURSIVE Concat(_)
Concat(list) == IF list = <<>> THEN <<>> ELSE Head(list) \o Concat(Tail(list))

\* subtree_size(heads, tails, root): the nodes of the subtree of root, root
\* included; subtrees_from adds up the subtrees of the children found at
\* the indices i..len(heads)
RECURSIVE subtree_size(_, _, _)
RECURSIVE subtrees_from(_, _, _, _)
subtrees_from(heads, tails, root_id, i) ==
  IF i > Len(heads) THEN 0
  ELSE (IF heads[i] = root_id THEN subtree_size(heads, tails, tails[i]) ELSE 0)
         + subtrees_from(heads, tails, root_id, i + 1)

subtree_size(heads, tails, root_id) == subtrees_from(heads, tails, root_id, 1) + 1

\* x in tag  for a one-character string x
tag_has(x, tag) == IsSubstring(<<x>>, tag)

\* clean_clause, lines 59-67: the leading conjunctions and punctuation
\* marks are popped; the number of tokens popped
RECURSIVE leading_spurious(_)
leading_spurious(postags) ==
  IF postags # <<>> /\ (tag_has("J", Head(postags)) \/ tag_has("Z", Head(postags)))
  THEN 1 + leading_spurious(Tail(postags))
  ELSE 0

\* clean_clause without the loop of lines 73-80: no trailing token is popped
trailing_spurious_none(postags) == 0

\* clean_clause, lines 73-80, for a non-empty list: the number of trailing
\* tokens popped
RECURSIVE trailing_spurious(_)
trailing_spurious(postags) ==
  IF tag_has("J", postags[Len(postags)]) \/ tag_has("Z", postags[Len(postags)])
  THEN 1 + trailing_spurious(SubSeq(postags, 1, Len(postags) - 1))
  ELSE 0

\* clean_clause(clause): every vector of the clause (ids, postags, deprels,
\* heads and, where the clause has them, wordforms, lemmas, features) loses
\* the same leading and trailing tokens; root_loc holds 0-based indices
clean_clause(clause) ==
  LET lead == leading_spurious(clause.postags)
      rest == SubSeq(clause.postags, lead + 1, Len(clause.postags))
  IN  IF rest = <<>>
      THEN [ f \in (DOMAIN clause) \cup {"root_loc"} |-> <<>> ]
      ELSE LET last == Len(clause.postags) - trailing_spurious(rest)
               ids == SubSeq(clause.ids, lead + 1, last)
               heads == SubSeq(clause.heads, lead + 1, last)
               roots == Sorted({ i \in DOMAIN heads : heads[i] \notin Range(ids) })
           IN  [ f \in (DOMAIN clause) \cup {"root_loc"} |->
                   IF f = "root_loc"
                   THEN [ k \in 1..Len(roots) |-> roots[k] - 1 ]
                   ELSE SubSeq(clause[f], lead + 1, last) ]

\* lines 126-136 of syntax_sketch: the letter for the tag of the root
sketch_root(root_tag) ==
  IF root_tag = <<"V">> THEN <<"V">>
  ELSE IF root_tag \in { <<"S">>, <<"P">>, <<"A">>, <<"Y">>, <<"N">> } THEN <<"S">>
  ELSE <<"X">>

\* the size class with the limits compared by <= instead of <
subtree_cat_inclusive(length) ==
  IF length <= 3 THEN <<"L">>
  ELSE IF length <= 10 THEN <<"P">>
  ELSE <<"Ü", "P">>

\* lines 146-151: the size class of a subtree of length nodes
subtree_cat(length) ==
  IF length < 3 THEN <<"L">>
  ELSE IF length < 10 THEN <<"P">>
  ELSE <<"Ü", "P">>

\* lines 139-154: the strings of the children of the root, in clause order
first_level(clause) ==
  LET root_id == clause.ids[clause.root_loc[1] + 1]
      children == Sorted({ i \in DOMAIN clause.heads : clause.heads[i] = root_id })
  IN  [ k \in 1..Len(children) |->
          clause.deprels[children[k]] \o <<"(">>
            \o subtree_cat(subtree_size(clause.heads, clause.ids, clause.ids[children[k]]))
            \o <<")">> ]

\* syntax_sketch(clause, ordered): the sketch it returns, or the error of
\* the assert in line 123
syntax_sketch(clause, ordered) ==
  IF Len(clause.root_loc) # 1
  THEN [ raises |-> "AssertionError", value |-> <<>> ]
  ELSE LET root_tag == clause.postags[clause.root_loc[1] + 1]
           children == IF ordered THEN sorted_strings(first_level(clause))
                       ELSE first_level(clause)
       IN  [ raises |-> "none",
             value |-> <<"[">> \o sketch_root(root_tag) \o <<"]">> \o Concat(children) ]

\* the test of line 213 taken as: more than one root
invalid_clause_several(cleaned_clause) == Len(cleaned_clause.root_loc) > 1

\* line 213 of compute_sketches: the clause is counted as invalid
invalid_clause(cleaned_clause) == Len(cleaned_clause.root_loc) # 1

\* lines 211-220 of compute_sketches: the loop over the clauses of one
\* text, from the sketches, the count of the text and the invalid count so
\* far; an error of syntax_sketch ends it
RECURSIVE text_sketches(_, _)
text_sketches(clauses, acc) ==
  IF clauses = <<>> \/ acc.raises # "none" THEN acc
  ELSE LET cleaned_clause == clean_clause(Head(clauses))
       IN  IF invalid_clause(cleaned_clause)
           THEN text_sketches(Tail(clauses),
                  [ acc EXCEPT !.invalid_clauses_total = @ + 1 ])
           ELSE LET call == syntax_sketch(cleaned_clause, TRUE)
                IN  text_sketches(Tail(clauses),
                      [ acc EXCEPT !.sketches = IF call.raises = "none"
                                                THEN Append(@, call.value) ELSE @,
                                   !.clauses_count = @ + 1,
                                   !.raises = call.raises ])

\* lines 206-223: the loop over the texts of whole_data
RECURSIVE corpus_sketches(_, _)
corpus_sketches(whole_data, acc) ==
  IF whole_data = <<>> \/ acc.raises # "none" THEN acc
  ELSE LET text == text_sketches(Head(whole_data), [ acc EXCEPT !.clauses_count = 0 ])
       IN  corpus_sketches(Tail(whole_data),
             [ text EXCEPT !.clauses_count_total = @ + text.clauses_count ])

\* compute_sketches from line 206 on, for the texts read into whole_data:
\* the pair it returns, or the error that ended it
compute_sketches(whole_data) ==
  LET end == corpus_sketches(whole_data,
               [ sketches |-> <<>>, clauses_count |-> 0, clauses_count_total |-> 0,
                 invalid_clauses_total |-> 0, raises |-> "none" ])
  IN  [ raises |-> end.raises,
        value |-> [ sketches |-> end.sketches,
                    clauses_count_total |-> end.clauses_count_total ] ]

\* preserved = [] and extracted = [] (lines 273, 300): the local name is
\* bound to a new list
new_list(object) == "new"

\* amount is None or done < amount (lines 279, 307); None is <<>> and the
\* number k is <<k>>
within_amount(amount, done) == amount = <<>> \/ done < amount[1]

\* lines 275-281 of extract_sketches: the loop from the clause at index i
\* on; an error of syntax_sketch ends it
RECURSIVE extract_loop(_, _, _, _, _, _)
extract_loop(clause_conllus, clause_dicts, target_sketch, amount, i, acc) ==
  IF i > Len(clause_conllus) \/ acc.raises # "none" THEN acc
  ELSE LET call == syntax_sketch(clause_dicts[i], TRUE)
           take == /\ call.raises = "none"
                   /\ call.value = target_sketch
                   /\ within_amount(amount, Len(acc.extracted))
       IN  extract_loop(clause_conllus, clause_dicts, target_sketch, amount, i + 1,
             [ extracted |-> IF take THEN Append(acc.extracted, clause_conllus[i])
                             ELSE acc.extracted,
               extracted_dicts |-> IF take THEN Append(acc.extracted_dicts, clause_dicts[i])
                                   ELSE acc.extracted_dicts,
               raises |-> call.raises ])

\* extract_sketches(clause_conllus, clause_dicts, target_sketch, amount):
\* the triple it returns, or the error of an assert
extract_sketches(clause_conllus, clause_dicts, target_sketch, amount) ==
  IF Len(clause_conllus) # Len(clause_dicts)
  THEN [ raises |-> "AssertionError", value |-> <<>> ]
  ELSE LET end == extract_loop(clause_conllus, clause_dicts, target_sketch, amount, 1,
                    [ extracted |-> <<>>, extracted_dicts |-> <<>>, raises |-> "none" ])
       IN  [ raises |-> end.raises,
             value |-> << end.extracted, end.extracted_dicts, Len(end.extracted) >> ]

\* lines 303-311 of remove_sketches: the loop from the clause at index i on
RECURSIVE remove_loop(_, _, _, _, _, _)
remove_loop(clause_conllus, clause_dicts, target_sketch, amount, i, acc) ==
  IF i > Len(clause_conllus) \/ acc.raises # "none" THEN acc
  ELSE LET call == syntax_sketch(clause_dicts[i], TRUE)
           drop == /\ call.raises = "none"
                   /\ call.value = target_sketch
                   /\ within_amount(amount, acc.removed)
           keep == call.raises = "none" /\ ~drop
       IN  remove_loop(clause_conllus, clause_dicts, target_sketch, amount, i + 1,
             [ preserved |-> IF keep THEN Append(acc.preserved, clause_conllus[i])
                             ELSE acc.preserved,
               preserved_dicts |-> IF keep THEN Append(acc.preserved_dicts, clause_dicts[i])
                                   ELSE acc.preserved_dicts,
               removed |-> IF drop THEN acc.removed + 1 ELSE acc.removed,
               raises |-> call.raises ])

\* remove_sketches without the test of amount (as remove_sketches_group
\* has it): every clause of the target sketch is removed
remove_sketches_all(clause_conllus, clause_dicts, target_sketch, amount) ==
  IF Len(clause_conllus) # Len(clause_dicts)
  THEN [ raises |-> "AssertionError", value |-> <<>> ]
  ELSE LET end == remove_loop(clause_conllus, clause_dicts, target_sketch, <<>>, 1,
                    [ preserved |-> <<>>, preserved_dicts |-> <<>>, removed |-> 0,
                      raises |-> "none" ])
       IN  [ raises |-> end.raises,
             value |-> << end.preserved, end.preserved_dicts, end.removed >> ]

\* remove_sketches(clause_conllus, clause_dicts, target_sketch, amount)
remove_sketches(clause_conllus, clause_dicts, target_sketch, amount) ==
  IF Len(clause_conllus) # Len(clause_dicts)
  THEN [ raises |-> "AssertionError", value |-> <<>> ]
  ELSE LET end == remove_loop(clause_conllus, clause_dicts, target_sketch, amount, 1,
                    [ preserved |-> <<>>, preserved_dicts |-> <<>>, removed |-> 0,
                      raises |-> "none" ])
       IN  [ raises |-> end.raises,
             value |-> << end.preserved, end.preserved_dicts, end.removed >> ]

-----------------------------------------------------------------------------

VARIABLES
  use_prefilter,        \* Cutter.__use_prefilter
  use_filter,           \* Cutter.__use_filter
  use_original_syntax,  \* Cutter.__use_original_syntax
  pc,                   \* position of Cutter.cut
  deprel,               \* the relation cut is called with
  uid,                  \* number of sentences read from the reader
  G,                    \* the sentence graph of the current iteration
  deprel_origin,        \* local of cut: relations of the origin tree
  nodes_diff,           \* local of cut: ids the cut removed
  text_origin,          \* local of cut
  text_short,           \* local of cut
  deprel_short,         \* local of cut: relations of the re-analysed text
  stats,                \* local of cut: the counters
  wChanged, wConserved, wConstant, wStats,  \* rows written to each file
  f_open,               \* which of the four files is open
  f_opens,              \* how often each file has been opened
  calls,                \* texts handed to the analyzer for this sentence
  verdict,              \* terminal state of the current sentence
  error,                \* the exception that ended cut, if any
  tpc,                  \* position of a call of a library function
  op,                   \* the function that was called last
  T,                    \* the object passed as its first argument
  L,                    \* its second argument
  B,                    \* its third argument
  R,                    \* the value it returned
  R2,                   \* the value a second call, on R, returned
  exc                   \* the exception the call raised, if any

flags  == <<use_prefilter, use_filter, use_original_syntax>>
locals == <<deprel_origin, nodes_diff, text_origin, text_short, deprel_short>>
outs   == <<wChanged, wConserved, wConstant>>
files  == <<f_open, f_opens, wStats>>
cutVars  == <<flags, pc, deprel, uid, G, locals, stats, outs, files, calls,
              verdict, error>>
treeVars == <<tpc, op, T, L, B, R, R2, exc>>
vars     == <<cutVars, treeVars>>

\* the call of the function name returns: the caller's object and the
\* returned value are as the function left them
Returns(name, heap) ==
  /\ tpc' = "returned"
  /\ op' = name
  /\ T' = heap.argument
  /\ R' = heap.returned

\* no library function under way
TreeIdle ==
  /\ tpc = "idle" /\ op = "none" /\ exc = "none"
  /\ T = NoGraph /\ L = <<>> /\ B = "_" /\ R = NoGraph /\ R2 = NoGraph

\* a constructed Cutter, cut not yet called
Init ==
  /\ TreeIdle
  /\ \E kw \in Kwargs :
       /\ ~CtorRaises(kw)
       /\ use_prefilter = Cutter_init(kw).use_prefilter
       /\ use_filter = Cutter_init(kw).use_filter
       /\ use_original_syntax = Cutter_init(kw).use_original_syntax
  /\ pc = "ready"
  /\ deprel = <<>>
  /\ uid = 0
  /\ G = NoGraph
  /\ deprel_origin = <<>> /\ nodes_diff = <<>> /\ text_origin = <<>>
  /\ text_short = <<>> /\ deprel_short = <<>>
  /\ stats = ZeroStats
  /\ wChanged = <<>> /\ wConserved = <<>> /\ wConstant = <<>> /\ wStats = <<>>
  /\ f_open = [ f \in Files |-> FALSE ]
  /\ f_opens = [ f \in Files |-> 0 ]
  /\ calls = <<>>
  /\ verdict = "none"
  /\ error = "none"

\* cut(deprel) up to the sentence loop: open the files, write the headers,
\* zero the counters
StartCut ==
  /\ pc = "ready"
  /\ \E d \in CutDeprels : deprel' = d
  /\ f_open' = [ f \in Files |-> TRUE ]
  /\ f_opens' = [ f \in Files |-> f_opens[f] + 1 ]
  /\ wChanged' = HeaderRows /\ wConserved' = HeaderRows /\ wConstant' = HeaderRows
  /\ stats' = ZeroStats
  /\ pc' = "loop"
  /\ UNCHANGED <<treeVars, flags, uid, G, locals, wStats, calls, verdict, error>>

\* the loop head takes the next (uid, G) of the reader; the pre-filter
ReadSentence ==
  /\ pc = "loop"
  /\ uid < MaxSentences
  /\ \E s \in Sentences :
       LET g == SentenceGraph(s)
           st == Incr(stats, "sentences_total")
       IN  /\ G' = g
           /\ IF use_prefilter /\ pre_filter(g, deprel)
              THEN /\ stats' = Ignored(st)
                   /\ verdict' = "pre_filtered"
                   /\ pc' = "next"
              ELSE /\ stats' = st
                   /\ verdict' = "none"
                   /\ pc' = "origin"
  /\ uid' = uid + 1
  /\ calls' = <<>>
  /\ UNCHANGED <<treeVars, flags, deprel, locals, outs, files, error>>

\* lines 170-219 of cut once the origin tree is there: the filter, the cut,
\* the CONSTANT test and the text to re-analyse.  sentence_text is the text of
\* G, dorigin the relations of the origin tree, short the text of the
\* shortened tree, diff the ids the cut removed.  G is not read after the
\* filter of line 174 and is dropped there.  skip is the result of
\* self.__use_filter and self.filter(G, deprel).
CutOutcome(sentence_text, skip, dorigin, short, diff) ==
  /\ deprel_origin' = dorigin
  /\ deprel_short' = <<>>
  /\ IF skip
     THEN /\ stats' = Ignored(stats)
          /\ verdict' = "filtered"
          /\ pc' = "next"
          /\ UNCHANGED <<G, nodes_diff, text_origin, text_short, outs, error>>
     ELSE /\ text_origin' = sentence_text
          /\ G' = NoGraph
          /\ IF is_constant(sentence_text, short)
             THEN /\ stats' = Incr(Incr(stats, "sentences_checked"), "sentences_constant")
                  /\ wConstant' = wConstant \o ConstantRows(uid)
                  /\ text_short' = short
                  /\ verdict' = "constant"
                  /\ pc' = "next"
                  /\ UNCHANGED <<nodes_diff, wChanged, wConserved, error>>
             ELSE /\ stats' = Incr(stats, "sentences_checked")
                  /\ nodes_diff' = diff
                  /\ verdict' = "none"
                  /\ IF 1 \in Range(diff)
                     THEN IF short = <<>>
                          THEN /\ text_short' = short
                               /\ error' = "IndexError"
                               /\ pc' = "raised"
                          ELSE /\ text_short' = Capitalize(short)
                               /\ error' = error
                               /\ pc' = "reanalyze"
                     ELSE /\ text_short' = short
                          /\ error' = error
                          /\ pc' = "reanalyze"
                  /\ UNCHANGED outs

\* g_short = self.cutSentence(g_origin, deprel) and what cut derives from it
CutShort(sentence_text, skip, g_origin, g_short) ==
  CutOutcome(sentence_text, skip, get_prop_deprel(g_origin),
             Join(get_prop_form(g_short)), get_nodes_diff(g_origin, g_short))

CutStep(sentence_text, skip, g_origin) ==
  CutShort(sentence_text, skip, g_origin, cutSentence(g_origin, deprel))

\* g_origin = analyze_as_graph(sentence_text, tagger), then the rest
AnalyzeAndCut(sentence_text, skip) ==
  \E g \in analyze_as_graph(get_prop_form(G)) : CutStep(sentence_text, skip, g)

\* use_original_syntax: g_origin = G.copy()
OriginCopy ==
  /\ pc = "origin"
  /\ use_original_syntax
  /\ CutStep(Join(get_prop_form(G)), use_filter /\ filter(G, deprel), G)
  /\ UNCHANGED <<treeVars, flags, deprel, uid, files, calls>>

\* otherwise g_origin = analyze_as_graph(sentence_text, tagger)
OriginAnalyze ==
  /\ pc = "origin"
  /\ ~use_original_syntax
  /\ AnalyzeAndCut(Join(get_prop_form(G)), use_filter /\ filter(G, deprel))
  /\ calls' = Append(calls, Join(get_prop_form(G)))
  /\ UNCHANGED <<treeVars, flags, deprel, uid, files>>

\* the analyzer raises on the sentence text: nothing in cut catches it
OriginAnalyzeRaises ==
  /\ pc = "origin"
  /\ ~use_original_syntax
  /\ calls' = Append(calls, Join(get_prop_form(G)))
  /\ error' = "AnalyzerError"
  /\ pc' = "raised"
  /\ UNCHANGED <<treeVars, flags, deprel, uid, G, locals, stats, outs, files, verdict>>

\* lines 225-262 of cut: re-analysis of the shortened text and the verdict
Reanalyze ==
  /\ pc = "reanalyze"
  /\ \E ds \in ReanalysisDeprels :
       LET original_removed == remove_removed(deprel_origin, nodes_diff)
           conserved == is_equal(ds, original_removed)
       IN  /\ deprel_short' = ds
           /\ IF conserved
              THEN /\ stats' = Incr(stats, "syntax_conserved")
                   /\ wConserved' = wConserved \o VerdictRows(uid)
                   /\ verdict' = "conserved"
                   /\ UNCHANGED <<wChanged, wConstant>>
              ELSE /\ stats' = Incr(stats, "syntax_changed")
                   /\ wChanged' = wChanged \o VerdictRows(uid)
                   /\ verdict' = "changed"
                   /\ UNCHANGED <<wConserved, wConstant>>
  /\ calls' = Append(calls, text_short)
  /\ pc' = "next"
  /\ UNCHANGED <<treeVars, flags, deprel, uid, G, deprel_origin, nodes_diff, text_origin,
                 text_short, files, error>>

\* the analyzer raises on the shortened text
ReanalyzeRaises ==
  /\ pc = "reanalyze"
  /\ calls' = Append(calls, text_short)
  /\ error' = "AnalyzerError"
  /\ pc' = "raised"
  /\ UNCHANGED <<treeVars, flags, deprel, uid, G, locals, stats, outs, files, verdict>>

\* continue / end of the loop body: back to the loop head
Continue ==
  /\ pc = "next"
  /\ pc' = "loop"
  /\ G' = NoGraph
  /\ deprel_origin' = <<>> /\ nodes_diff' = <<>> /\ text_origin' = <<>>
  /\ text_short' = <<>> /\ deprel_short' = <<>>
  /\ verdict' = "none"
  /\ calls' = <<>>
  /\ UNCHANGED <<treeVars, flags, deprel, uid, stats, outs, files, error>>

\* the reader is exhausted: lines 264-274, close the files, write the stats
Finish ==
  /\ pc = "loop"
  /\ wStats' = [ k \in 1..Len(StatKeys) |-> <<StatKeys[k], stats[StatKeys[k]]>> ]
  /\ f_open' = [ f \in Files |-> FALSE ]
  /\ pc' = "done"
  /\ UNCHANGED <<treeVars, flags, deprel, uid, G, locals, stats, outs, f_opens, calls,
                 verdict, error>>

Next ==
  \/ StartCut
  \/ ReadSentence
  \/ OriginCopy
  \/ OriginAnalyze
  \/ OriginAnalyzeRaises
  \/ Reanalyze
  \/ ReanalyzeRaises
  \/ Continue
  \/ Finish

Spec == Init /\ [][Next]_vars

-----------------------------------------------------------------------------
(* Claims about Cutter.cut *)

Outcomes(st) ==
  st["sentences_ignored"] + st["sentences_constant"]
    + st["syntax_conserved"] + st["syntax_changed"]

\* the record groups of a stream: its blank rows
Groups(w) == Cardinality({ k \in DOMAIN w : w[k][2] = "" })

\* the sentences with a row in a stream
UidsOf(w) == { w[k][1] : k \in { j \in DOMAIN w : w[j][2] \notin {"", "cols"} } }

\* the relation D occurs as the relation of a token
HasDeprel(deprels, d) == \E i \in DOMAIN deprels : deprels[i] = d

\* the elements of seq at the positions that are not removed, in order
Surviving(seq, removed) ==
  LET keep == Sorted((DOMAIN seq) \ Range(removed))
  IN  [ k \in 1..Len(keep) |-> seq[keep[k]] ]

C2_VerdictIsRelationEquality ==
  /\ pc = "reanalyze" => text_short # text_origin
  /\ (pc = "next" /\ verdict \in {"conserved", "changed"}) =>
       /\ text_short # text_origin
       /\ verdict = "conserved" <=> deprel_short = Surviving(deprel_origin, nodes_diff)

\* a CONSERVED sentence from which the cut removed two tokens
C2_Witness ==
  /\ pc = "next"
  /\ verdict = "conserved"
  /\ Len(nodes_diff) = 2

\* C3: the three streams hold, after the header, only whole record groups;
\* their numbers are sentences_constant, syntax_conserved and syntax_changed;
\* no sentence has rows in two streams, and a filtered-out sentence has none
C3_StreamsMatchCounters ==
  pc \notin {"idle", "ready"} =>
    /\ Groups(wConstant) = stats["sentences_constant"]
    /\ Groups(wConserved) = stats["syntax_conserved"]
    /\ Groups(wChanged) = stats["syntax_changed"]
    /\ Len(wConstant) = 1 + 3 * Groups(wConstant)
    /\ Len(wConserved) = 1 + 5 * Groups(wConserved)
    /\ Len(wChanged) = 1 + 5 * Groups(wChanged)
    /\ \A k \in 1..Groups(wConstant) :
         \E u \in 1..uid : SubSeq(wConstant, 3 * k - 1, 3 * k + 1) = ConstantRows(u)
    /\ \A k \in 1..Groups(wConserved) :
         \E u \in 1..uid : SubSeq(wConserved, 5 * k - 3, 5 * k + 1) = VerdictRows(u)
    /\ \A k \in 1..Groups(wChanged) :
         \E u \in 1..uid : SubSeq(wChanged, 5 * k - 3, 5 * k + 1) = VerdictRows(u)
    /\ UidsOf(wConstant) \cap UidsOf(wConserved) = {}
    /\ UidsOf(wConstant) \cap UidsOf(wChanged) = {}
    /\ UidsOf(wConserved) \cap UidsOf(wChanged) = {}
    /\ Cardinality(UidsOf(wConstant)) = Groups(wConstant)
    /\ Cardinality(UidsOf(wConserved)) = Groups(wConserved)
    /\ Cardinality(UidsOf(wChanged)) = Groups(wChanged)
    /\ (pc = "next" /\ verdict \in {"pre_filtered", "filtered"}) =>
         uid \notin UidsOf(wConstant) \cup UidsOf(wConserved) \cup UidsOf(wChanged)
    /\ (pc = "next" /\ verdict = "constant") => uid \in UidsOf(wConstant)
    /\ (pc = "next" /\ verdict = "conserved") => uid \in UidsOf(wConserved)
    /\ (pc = "next" /\ verdict = "changed") => uid \in UidsOf(wChanged)

\* a CONSTANT sentence followed by a CONSERVED one
C3_Witness ==
  /\ pc = "next"
  /\ verdict = "conserved"
  /\ UidsOf(wConstant) = {1}
  /\ UidsOf(wConserved) = {2}

\* C4: with the pre-filter on, a sentence is pre-filtered out exactly when no
\* token of its annotation has the relation D: one that gets past the
\* pre-filter has a token with relation D, and one that is pre-filtered out
\* has none, is counted as ignored and reaches neither analyzer nor stream
C4_PreFilteredExactlyWithoutD ==
  /\ (use_prefilter /\ pc = "origin") => HasDeprel(get_prop_deprel(G), deprel)
  /\ (pc = "next" /\ verdict = "pre_filtered") =>
       /\ ~HasDeprel(get_prop_deprel(G), deprel)
       /\ calls = <<>>

\* C5: with the filter on, no sentence whose origin tree lacks the relation D
\* reaches the cut, the re-analysis or one of CONSTANT, CONSERVED, CHANGED
C5_NoCutWithoutDInOrigin ==
  (use_filter /\ (pc = "reanalyze"
                    \/ (pc = "next" /\ verdict \in {"constant", "conserved", "changed"})))
    => HasDeprel(deprel_origin, deprel)

\* C6: a sentence whose shortened text equals its original text ends in
\* CONSTANT: it is counted in sentences_constant, its record group is in the
\* constant stream, and the analyzer is not called on the shortened text
C6_SameTextIsConstant ==
  /\ (pc = "next" /\ verdict \notin {"pre_filtered", "filtered"}
        /\ text_short = text_origin) =>
       /\ verdict = "constant"
       /\ stats["sentences_constant"] >= 1
       /\ SubSeq(wConstant, Len(wConstant) - 2, Len(wConstant)) = ConstantRows(uid)
       /\ \A k \in DOMAIN calls : k = 1 /\ ~use_original_syntax /\ calls[k] = text_origin
  /\ pc = "reanalyze" => text_short # text_origin
  /\ (pc = "next" /\ verdict \in {"conserved", "changed"}) => text_short # text_origin

\* a CONSTANT sentence whose origin tree came from the analyzer
C6_Witness ==
  /\ pc = "next"
  /\ verdict = "constant"
  /\ text_short = text_origin
  /\ calls = <<text_origin>>

\* C7: a cut that leaves no token raises no error: the sentence is counted
\* as ignored and the run goes on
C7_DegenerateCutIsIgnored ==
  (nodes_diff # <<>> /\ text_short = <<>>) =>
    /\ error = "none"
    /\ pc # "raised"

\* C8: an error of the analyzer ends the processing of one sentence only: the
\* run is not ended by it
C8_AnalyzerErrorDoesNotEndRun ==
  ~(pc = "raised" /\ error = "AnalyzerError")

\* C9: each of the four files is opened once and all are closed when cut
\* ends, normally or by an error
C9_FilesClosedWhenCutEnds ==
  pc \in {"done", "raised"} =>
    \A f \in Files : ~f_open[f] /\ f_opens[f] = 1

-----------------------------------------------------------------------------
(* The tree operations on their own: remove_deprel applied to any graph *)

\* largest number of tokens of a graph passed to a tree operation
MaxTreeNodes == 3
\* largest length of the label list passed to remove_deprel
MaxLabels == 2

\* a graph of n tokens in which every token has one head, well-formed or
\* not: several roots, cycles and self-loops included
AnyGraph(n, h, d) ==
  SentenceGraph([ form |-> [ i \in 1..n |-> <<"x">> ], head |-> h, deprel |-> d ])

\* lists of labels, repetitions included
LabelLists == UNION { [1..k -> Labels] : k \in 0..MaxLabels }

\* no Cutter at work: the library functions are called on their own
CutIdle ==
  /\ use_prefilter = TRUE /\ use_filter = TRUE /\ use_original_syntax = FALSE
  /\ pc = "idle"
  /\ deprel = <<>>
  /\ uid = 0
  /\ G = NoGraph
  /\ deprel_origin = <<>> /\ nodes_diff = <<>> /\ text_origin = <<>>
  /\ text_short = <<>> /\ deprel_short = <<>>
  /\ stats = ZeroStats
  /\ wChanged = <<>> /\ wConserved = <<>> /\ wConstant = <<>> /\ wStats = <<>>
  /\ f_open = [ f \in Files |-> FALSE ]
  /\ f_opens = [ f \in Files |-> 0 ]
  /\ calls = <<>>
  /\ verdict = "none"
  /\ error = "none"

\* a call about to be made, nothing returned or raised yet
AtCall == tpc = "call" /\ op = "none" /\ exc = "none" /\ R = NoGraph /\ R2 = NoGraph

InitTree ==
  /\ CutIdle
  /\ AtCall
  /\ \E n \in 1..MaxTreeNodes :
       \E h \in [1..n -> 0..n], d \in [1..n -> AnalyzerLabels] : T = AnyGraph(n, h, d)
  /\ L \in LabelLists
  /\ B = "_"

\* R = remove_deprel(T, L)
CallRemoveDeprel ==
  /\ tpc = "call"
  /\ Returns("remove_deprel", after_call(T, copy(T), remove_deprel(T, L)))
  /\ UNCHANGED <<cutVars, L, B, R2, exc>>

NextTree == CallRemoveDeprel

SpecTree == InitTree /\ [][NextTree]_vars

-----------------------------------------------------------------------------
(* C10 *)

\* C10: every node with id > 0 that remains in remove_deprel(T, L) is
\* reachable from node 0 in the returned graph
C10_RemainingNodesReachable ==
  tpc = "returned" =>
    \A node \in R.nodes : node > 0 => node \in Reach(R, {0})

\* a call in which the clean-up removed an orphan and some token survived
C10_Witness ==
  /\ tpc = "returned"
  /\ \E n \in T.nodes \ R.nodes : T.deprel[n] \notin Range(L)
  /\ R.nodes # {0}

-----------------------------------------------------------------------------
(* C11, C12 *)

\* a well-formed tree: every token is reachable from node 0 (each token has
\* one head by construction)
IsTree(tree) == \A node \in tree.nodes : node \in Reach(tree, {0})

\* the node itself and the nodes it can be reached from
AncestorsOrSelf(tree, node) == { a \in tree.nodes : node \in Reach(tree, {a}) }

\* the nodes none of whose ancestors-or-self carries a relation of labels
Unlabelled(tree, labels) ==
  { node \in tree.nodes :
      \A a \in AncestorsOrSelf(tree, node) \ {0} : tree.deprel[a] \notin Range(labels) }

\* C11: for a well-formed tree T, remove_deprel(T, L) keeps exactly the nodes
\* none of whose ancestors-or-self carries a relation in L: every node
\* labelled in L goes with all its descendants, and no other node goes
C11_KeepsExactlyUnlabelledSubtrees ==
  (tpc = "returned" /\ op = "remove_deprel" /\ IsTree(T)) =>
    R.nodes = Unlabelled(T, L)

\* a well-formed tree in which a labelled node went with a descendant that
\* does not carry a relation of L, and another token stayed
C11_Witness ==
  /\ tpc = "returned" /\ op = "remove_deprel" /\ IsTree(T)
  /\ \E n \in T.nodes \ R.nodes :
       /\ T.deprel[n] \notin Range(L)
       /\ \E a \in AncestorsOrSelf(T, n) \ {0} : T.deprel[a] \in Range(L)
  /\ R.nodes # {0}

\* C12: remove_deprel(T, {D}) of a well-formed tree T none of whose nodes
\* has relation D is equal to T: same nodes, same edges, same attributes
C12_AbsentRelationIsIdentity ==
  (tpc = "returned" /\ op = "remove_deprel" /\ IsTree(T) /\ Len(L) = 1
     /\ \A n \in T.nodes \ {0} : T.deprel[n] # L[1]) =>
    R = T

\* a well-formed tree of several tokens cut at a relation none of them has
C12_Witness ==
  /\ tpc = "returned" /\ op = "remove_deprel" /\ IsTree(T) /\ Len(L) = 1
  /\ \A n \in T.nodes \ {0} : T.deprel[n] # L[1]
  /\ Cardinality(T.nodes) > 2
  /\ R = T

-----------------------------------------------------------------------------
(* The three removals on graphs with the attributes form, deprel and lemma *)

\* largest number of tokens of a graph passed to the three removals
MaxOpNodes == 4

\* the tokens of those graphs: the two brackets, a comparative adverb, a
\* plain word and the conjunction kui
OpWords ==
  { [ form |-> <<"(">>, lemma |-> "(", deprel |-> root ],
    [ form |-> <<")">>, lemma |-> ")", deprel |-> root ],
    [ form |-> <<"r">>, lemma |-> "rohkem", deprel |-> obj ],
    [ form |-> <<"x">>, lemma |-> "x", deprel |-> obj ],
    [ form |-> <<"k">>, lemma |-> "kui", deprel |-> root ] }

\* heads of n tokens: every token under node 0, each token under the one
\* before it, each token under the one after it
HeadShapes(n) ==
  { [ i \in 1..n |-> 0 ],
    [ i \in 1..n |-> i - 1 ],
    [ i \in 1..n |-> IF i = n THEN 0 ELSE i + 1 ] }

\* the directed graph of a sentence of words with the heads h
WordGraph(words, h) ==
  [ nodes  |-> {0} \cup DOMAIN words,
    edges  |-> { <<h[i], i>> : i \in DOMAIN words },
    form   |-> [ i \in DOMAIN words |-> words[i].form ],
    deprel |-> [ i \in DOMAIN words |-> words[i].deprel ],
    lemma  |-> [ i \in DOMAIN words |-> words[i].lemma ] ]

\* the relation handed to remove_deprel and to remove_deprel_ennekui
OpLabelLists == { <<obj>>, <<root>> }

InitOps ==
  /\ CutIdle
  /\ AtCall
  /\ \E n \in 1..MaxOpNodes :
       \E words \in [1..n -> OpWords], h \in HeadShapes(n) : T = WordGraph(words, h)
  /\ L \in OpLabelLists
  /\ B = "_"

\* R = remove_brackets(T)
CallRemoveBrackets ==
  /\ tpc = "call"
  /\ Returns("remove_brackets", after_call(T, copy(T), remove_brackets(T)))
  /\ UNCHANGED <<cutVars, L, B, R2, exc>>

\* remove_deprel_ennekui(T, L[1]): the removals of lines 65-70 are applied
\* to the copy, then line 73 raises
CallRemoveDeprelEnnekui ==
  /\ tpc = "call"
  /\ LET call == remove_deprel_ennekui(T, L[1])
         heap == after_call(T, copy(T), call.G)
     IN  /\ tpc' = "raised"
         /\ op' = "remove_deprel_ennekui"
         /\ exc' = call.raises
         /\ T' = heap.argument
  /\ UNCHANGED <<cutVars, L, B, R, R2>>

NextOps ==
  \/ CallRemoveDeprel
  \/ CallRemoveBrackets
  \/ CallRemoveDeprelEnnekui

SpecOps == InitOps /\ [][NextOps]_vars

-----------------------------------------------------------------------------
(* C13 *)

\* C13: remove_deprel, remove_brackets and remove_deprel_ennekui never change
\* the graph passed to them: after the call the caller's graph is what it
\* was before it
C13_InputGraphUnchanged == [][tpc = "call" => T' = T]_vars

\* a call that removed tokens in what it returned and left the caller's
\* graph with all of them
C13_Witness ==
  /\ tpc = "returned" /\ op \in {"remove_deprel", "remove_brackets"}
  /\ R.nodes # T.nodes
  /\ Cardinality(T.nodes) = MaxOpNodes + 1

-----------------------------------------------------------------------------
(* C16 *)

\* opening minus closing brackets among the tokens from..to of the tree
BracketDepth(tree, from, to) ==
  Cardinality({ i \in from..to : tree.form[i] = <<"(">> })
    - Cardinality({ i \in from..to : tree.form[i] = <<")">> })

\* the opening bracket o and the closing bracket c that closes it: the
\* brackets between the two pair off among themselves
MatchedPair(tree, o, c) ==
  /\ o < c
  /\ tree.form[o] = <<"(">> /\ tree.form[c] = <<")">>
  /\ BracketDepth(tree, o + 1, c - 1) = 0
  /\ \A k \in (o + 1)..(c - 1) : BracketDepth(tree, o + 1, k) >= 0

\* the tokens from an opening bracket through its closing bracket
BracketSpans(tree) ==
  LET tokens == tree.nodes \ {0}
  IN  UNION { o..c : <<o, c>> \in { p \in tokens \X tokens : MatchedPair(tree, p[1], p[2]) } }

\* C16: remove_brackets removes every token from an opening "(" through its
\* closing ")" inclusive and no token outside such a span, whatever its head
\* or children: a "(" that is not closed by the end of the sentence stays,
\* with the tokens after it that lie in no closed span; the kept tokens keep
\* their attributes and the edges among them; and the result has no "("
\* followed at a higher id by a ")"
C16_RemovesExactlyClosedSpans ==
  (tpc = "returned" /\ op = "remove_brackets") =>
    /\ T.nodes \ R.nodes = BracketSpans(T)
    /\ R.nodes \subseteq T.nodes
    /\ \A n \in R.nodes \ {0} :
         R.form[n] = T.form[n] /\ R.deprel[n] = T.deprel[n] /\ R.lemma[n] = T.lemma[n]
    /\ R.edges = { e \in T.edges : e[1] \in R.nodes /\ e[2] \in R.nodes }
    /\ ~ \E i, j \in R.nodes \ {0} :
           i < j /\ R.form[i] = <<"(">> /\ R.form[j] = <<")">>

\* a sentence with an opening bracket that is never closed and is kept, a
\* closed span after it that is removed, and a kept token whose head went
C16_Witness ==
  /\ tpc = "returned" /\ op = "remove_brackets"
  /\ \E o \in R.nodes \ {0} :
       /\ T.form[o] = <<"(">>
       /\ \E n \in T.nodes \ R.nodes : n > o
  /\ \E e \in T.edges : e[1] \notin R.nodes /\ e[2] \in R.nodes

-----------------------------------------------------------------------------
(* C17 *)

\* the nodes of relation d whose lemma is one of the four and whose next
\* node is there with lemma kui
EnnekuiFirstStep(tree, d) ==
  { n \in tree.nodes \ {0} :
      /\ tree.deprel[n] = d
      /\ tree.lemma[n] \in {"rohkem", "vähem", "samapalju", "enam"}
      /\ (n + 1) \in tree.nodes /\ tree.lemma[n + 1] = "kui" }

\* C17: remove_deprel_ennekui(T, d) returns a tree: the nodes of the first
\* step are removed from it, then every node with id > 0 that node 0 does
\* not reach, and every other node is in it
C17_EnnekuiReturnsCleanedTree ==
  (op = "remove_deprel_ennekui") =>
    /\ tpc = "returned"
    /\ R.nodes = Reach(remove_nodes(T, Sorted(EnnekuiFirstStep(T, L[1]))), {0})

-----------------------------------------------------------------------------
(* add_blanks and remove_removed on their own, one after the other in *)
(* either order                                                        *)

\* largest length of a list passed to add_blanks or remove_removed, and
\* largest position in indexes
MaxSeqLen == 3

\* the elements of the lists: two relations and the blank itself
SeqSymbols == {"a", "b", "_"}

\* the blanks add_blanks is called with
Blanks == {"_", "b"}

SeqLists == UNION { [1..n -> SeqSymbols] : n \in 0..MaxSeqLen }

\* indexes: distinct 1-based positions, in ascending or descending order
IndexLists ==
  UNION { { Sorted(P), Reversed(Sorted(P)) } : P \in SUBSET (1..MaxSeqLen) }

InitSeq ==
  /\ CutIdle
  /\ AtCall
  /\ T \in SeqLists
  /\ L \in IndexLists
  /\ B \in Blanks

\* R = remove_removed(T, L), or IndexError
CallRemoveRemoved ==
  /\ tpc = "call"
  /\ IF remove_removed_raises(T, L)
     THEN /\ tpc' = "raised" /\ op' = "remove_removed" /\ exc' = "IndexError"
          /\ UNCHANGED <<T, R>>
     ELSE /\ Returns("remove_removed", after_call(T, copy(T), remove_removed(T, L)))
          /\ UNCHANGED exc
  /\ UNCHANGED <<cutVars, L, B, R2>>

\* R = add_blanks(T, L, B)
CallAddBlanks ==
  /\ tpc = "call"
  /\ Returns("add_blanks", after_call(T, copy(T), add_blanks(T, L, B)))
  /\ UNCHANGED <<cutVars, L, B, R2, exc>>

\* R2 = add_blanks(R, L, B) for the R that remove_removed returned
AddBlanksToReturned ==
  /\ tpc = "returned" /\ op = "remove_removed"
  /\ LET heap == after_call(R, copy(R), add_blanks(R, L, B))
     IN  R' = heap.argument /\ R2' = heap.returned
  /\ tpc' = "returned2"
  /\ UNCHANGED <<cutVars, op, T, L, B, exc>>

\* R2 = remove_removed(R, L) for the R that add_blanks returned, or
\* IndexError
RemoveRemovedFromReturned ==
  /\ tpc = "returned" /\ op = "add_blanks"
  /\ IF remove_removed_raises(R, L)
     THEN /\ tpc' = "raised" /\ exc' = "IndexError"
          /\ UNCHANGED <<R, R2>>
     ELSE /\ LET heap == after_call(R, copy(R), remove_removed(R, L))
             IN  R' = heap.argument /\ R2' = heap.returned
          /\ tpc' = "returned2"
          /\ UNCHANGED exc
  /\ UNCHANGED <<cutVars, op, T, L, B>>

NextSeq ==
  \/ CallRemoveRemoved
  \/ CallAddBlanks
  \/ AddBlanksToReturned
  \/ RemoveRemovedFromReturned

SpecSeq == InitSeq /\ [][NextSeq]_vars

-----------------------------------------------------------------------------
(* C14 *)

\* C14: for a relation sequence T and positions L within T,
\* add_blanks(remove_removed(T, L), L, '_') is T
C14_DeleteThenReinsertIsIdentity ==
  (tpc = "returned2" /\ op = "remove_removed" /\ B = "_") => R2 = T

\* C14 as the code has it: add_blanks(remove_removed(T, L), L, '_') has the
\* length of T, the blank '_' at the positions of L and the elements of T
\* at every other position
C14_DeleteThenReinsertBlanksThePositions ==
  (tpc = "returned2" /\ op = "remove_removed" /\ B = "_") =>
    /\ Len(R2) = Len(T)
    /\ \A i \in 1..Len(T) : R2[i] = (IF i \in Range(L) THEN "_" ELSE T[i])

\* a relation removed from the middle of a sequence and a blank put in its
\* place
C14_Witness ==
  /\ tpc = "returned2" /\ op = "remove_removed" /\ B = "_"
  /\ \E i \in Range(L) : 1 < i /\ i < Len(T) /\ T[i] # "_" /\ R2[i] = "_"
  /\ \E j \in 1..Len(T) : j \notin Range(L) /\ R2[j] = T[j]

-----------------------------------------------------------------------------
(* C15 *)

\* the positions P lie within the list S grown by one place for each of them
Fits(S, P) == Range(P) \subseteq 1..(Len(S) + Len(P))

\* out has the blank b at the positions P and the elements of S, in order,
\* at the other positions
Blanked(S, P, b, out) ==
  LET others == Sorted((1..Len(out)) \ Range(P))
  IN  /\ Len(out) = Len(S) + Len(P)
      /\ \A i \in Range(P) : out[i] = b
      /\ [ k \in 1..Len(others) |-> out[others[k]] ] = S

\* C15: for a list T and distinct positions L within 1..len(T)+|L|,
\* add_blanks(T, L, B) is T with the blank B put in at the positions L, and
\* remove_removed of that list at L is T again; add_blanks and remove_removed
\* leave the list passed to them as it was
C15_AddBlanksThenRemoveIsIdentity ==
  [][ /\ (tpc = "call" /\ op' = "add_blanks") =>
           (T' = T /\ (Fits(T, L) => Blanked(T, L, B, R')))
      /\ (tpc = "returned" /\ op = "add_blanks") =>
           (R' = R /\ (Fits(T, L) => (tpc' = "returned2" /\ R2' = T)))
      /\ (tpc = "call" /\ op' = "remove_removed") => T' = T
      /\ (tpc = "returned" /\ op = "remove_removed") => R' = R ]_vars

\* blanks other than '_' put in between and after the elements of a list,
\* one of them at a position the list did not have, and taken out again
C15_Witness ==
  /\ tpc = "returned2" /\ op = "add_blanks" /\ B = "b"
  /\ Len(T) >= 2 /\ Len(L) >= 2
  /\ \E i \in Range(L) : i > Len(T)
  /\ \E i \in Range(L) : i <= Len(T)
  /\ R # T /\ R2 = T

-----------------------------------------------------------------------------
(* syntax_sketch on cleaned clauses *)

\* largest number of tokens of the clauses taken with every choice of heads
MaxClauseLen == 3
\* largest number of tokens below the first child in the long clauses
MaxChain == 9

\* the tokens of clauses: a verb, a noun, a conjunction, a punctuation mark
ClauseWords ==
  { [ postag |-> <<"V">>, deprel |-> obj ],
    [ postag |-> <<"S">>, deprel |-> iobj ],
    [ postag |-> <<"J">>, deprel |-> obj ],
    [ postag |-> <<"Z">>, deprel |-> iobj ] }

\* the clause of the words with the ids and the heads
Clause(ids, words, heads) ==
  [ ids |-> ids,
    postags |-> [ i \in DOMAIN words |-> words[i].postag ],
    deprels |-> [ i \in DOMAIN words |-> words[i].deprel ],
    heads |-> heads ]

\* the clause of tokens 1..n with the words and the heads
SmallClause(n, words, heads) == Clause([ i \in 1..n |-> i ], words, heads)

\* clauses of tokens 2..k+4 inside a longer sentence: the root 2 under
\* token 1 of the sentence, its child 3 with a chain of k tokens below it,
\* and a last token under the root
LongClause(k, tag, last) ==
  Clause([ i \in 1..(k + 3) |-> i + 1 ],
         [ i \in 1..(k + 3) |->
             IF i = 1 THEN [ postag |-> tag, deprel |-> root ]
             ELSE IF i = k + 3 THEN last
             ELSE [ postag |-> <<"S">>, deprel |-> obj ] ],
         [ i \in 1..(k + 3) |-> IF i = 1 THEN 1 ELSE IF i = k + 3 THEN 2 ELSE i ])

LongClauses ==
  { LongClause(k, tag, last) :
      k \in 0..MaxChain, tag \in { <<"V">>, <<"Y">>, <<"D">> }, last \in ClauseWords }

\* syntax_sketch is called with the cleaned clause of a clause of up to
\* MaxClauseLen tokens, each with any word and any head in 0..n (no root,
\* several roots and cycles included), or of a long clause
InitSketch ==
  /\ CutIdle
  /\ AtCall
  /\ \/ \E n \in 1..MaxClauseLen :
          \E words \in [1..n -> ClauseWords], heads \in [1..n -> 0..n] :
            T = clean_clause(SmallClause(n, words, heads))
     \/ \E c \in LongClauses : T = clean_clause(c)
  /\ L \in BOOLEAN
  /\ B = "_"

\* R = syntax_sketch(T, ordered=L), or the AssertionError of line 123;
\* the clause is only read
CallSyntaxSketch ==
  /\ tpc = "call"
  /\ LET call == syntax_sketch(T, L)
     IN  IF call.raises # "none"
         THEN tpc' = "raised" /\ exc' = call.raises /\ UNCHANGED R
         ELSE tpc' = "returned" /\ R' = call.value /\ UNCHANGED exc
  /\ op' = "syntax_sketch"
  /\ UNCHANGED <<cutVars, T, L, B, R2>>

NextSketch == CallSyntaxSketch

SpecSketch == InitSketch /\ [][NextSketch]_vars

-----------------------------------------------------------------------------
(* C18 *)

\* the indices of the tokens of the subtree of the token at index i: i and
\* the tokens whose head is the id of a token already in it
RECURSIVE SubtreeOf(_, _)
SubtreeOf(clause, inside) ==
  LET more == { j \in DOMAIN clause.heads :
                  \E i \in inside : clause.heads[j] = clause.ids[i] } \ inside
  IN  IF more = {} THEN inside ELSE SubtreeOf(clause, inside \cup more)

\* the string deprel(size_class) of the child at index i
ChildString(clause, i) ==
  LET size == Cardinality(SubtreeOf(clause, {i}))
  IN  clause.deprels[i] \o <<"(">>
        \o (IF size < 3 THEN <<"L">> ELSE IF size < 10 THEN <<"P">> ELSE <<"Ü", "P">>)
        \o <<")">>

\* the letter of the sketch for the tag of the root
RootLetter(tag) ==
  IF tag = <<"V">> THEN "V"
  ELSE IF tag \in { <<"S">>, <<"P">>, <<"A">>, <<"Y">>, <<"N">> } THEN "S"
  ELSE "X"

\* the index of the one root of the clause
RootIndex(clause) == CHOOSE i \in DOMAIN clause.heads : clause.heads[i] \notin Range(clause.ids)

\* the indices of the tokens whose head is the root
ChildIndices(clause) ==
  { i \in DOMAIN clause.heads : clause.heads[i] = clause.ids[RootIndex(clause)] }

\* the orders of the children in which their strings ascend
AscendingOrders(clause) ==
  LET kids == ChildIndices(clause)
  IN  { order \in [1..Cardinality(kids) -> kids] :
          /\ \A a, b \in DOMAIN order : a # b => order[a] # order[b]
          /\ \A a \in 1..(Len(order) - 1) :
               ~StrLess(ChildString(clause, order[a + 1]), ChildString(clause, order[a])) }

\* C18: for a cleaned clause with exactly one root, syntax_sketch in default
\* mode returns [R], R the letter for the tag of the root, followed by one
\* string deprel(size_class) for each token whose head is the id of the
\* root, the strings in ascending code point order
C18_SketchIsRootAndSortedChildren ==
  (tpc = "returned" /\ op = "syntax_sketch" /\ L) =>
    /\ Len(T.root_loc) = 1
    /\ \E order \in AscendingOrders(T) :
         R = <<"[", RootLetter(T.postags[RootIndex(T)]), "]">>
               \o Concat([ k \in DOMAIN order |-> ChildString(T, order[k]) ])

\* a clause inside a longer sentence whose two children stand in the clause
\* in descending order of their strings, the first with a subtree of three
\* to nine tokens
C18_Witness ==
  /\ tpc = "returned" /\ op = "syntax_sketch" /\ L
  /\ 0 \notin Range(T.heads)
  /\ \E i, j \in ChildIndices(T) :
       /\ i < j
       /\ StrLess(ChildString(T, j), ChildString(T, i))
       /\ Cardinality(SubtreeOf(T, {i})) \in 3..9

-----------------------------------------------------------------------------
(* compute_sketches on the texts it has read *)

\* largest number of clauses in the texts of whole_data
MaxCorpus == 3

\* the clauses of the texts: a verb alone; a conjunction alone, nothing of
\* which is left; two nouns, both roots; a conjunction before a verb with
\* its object; two nouns under a final punctuation mark, both roots once
\* the mark is gone
CorpusClauses ==
  { SmallClause(1, << [ postag |-> <<"V">>, deprel |-> root ] >>, <<0>>),
    SmallClause(1, << [ postag |-> <<"J">>, deprel |-> obj ] >>, <<0>>),
    SmallClause(2, << [ postag |-> <<"S">>, deprel |-> obj ],
                      [ postag |-> <<"S">>, deprel |-> iobj ] >>, <<0, 0>>),
    SmallClause(3, << [ postag |-> <<"J">>, deprel |-> iobj ],
                      [ postag |-> <<"V">>, deprel |-> root ],
                      [ postag |-> <<"S">>, deprel |-> obj ] >>, <<2, 0, 2>>),
    SmallClause(3, << [ postag |-> <<"S">>, deprel |-> obj ],
                      [ postag |-> <<"S">>, deprel |-> iobj ],
                      [ postag |-> <<"Z">>, deprel |-> root ] >>, <<3, 3, 0>>) }

\* whole_data: the clauses of a first and of a second text
InitCorpus ==
  /\ CutIdle
  /\ AtCall
  /\ \E n \in 0..MaxCorpus : \E clauses \in [1..n -> CorpusClauses], cut \in 0..n :
       T = << SubSeq(clauses, 1, cut), SubSeq(clauses, cut + 1, n) >>
  /\ L = <<>>
  /\ B = "_"

\* R = compute_sketches(...) for the texts T, or its error
CallComputeSketches ==
  /\ tpc = "call"
  /\ LET call == compute_sketches(T)
     IN  IF call.raises # "none"
         THEN tpc' = "raised" /\ exc' = call.raises /\ UNCHANGED R
         ELSE tpc' = "returned" /\ R' = call.value /\ UNCHANGED exc
  /\ op' = "compute_sketches"
  /\ UNCHANGED <<cutVars, T, L, B, R2>>

\* syntax_sketch called on the cleaned clause of a clause of the texts
CallSyntaxSketchOfClause ==
  /\ tpc = "call"
  /\ \E t \in DOMAIN T : \E i \in DOMAIN T[t] :
       LET cleaned_clause == clean_clause(T[t][i])
           call == syntax_sketch(cleaned_clause, TRUE)
       IN  /\ T' = cleaned_clause
           /\ L' = TRUE
           /\ IF call.raises # "none"
              THEN tpc' = "raised" /\ exc' = call.raises /\ UNCHANGED R
              ELSE tpc' = "returned" /\ R' = call.value /\ UNCHANGED exc
  /\ op' = "syntax_sketch"
  /\ UNCHANGED <<cutVars, B, R2>>

NextCorpus ==
  \/ CallComputeSketches
  \/ CallSyntaxSketchOfClause

SpecCorpus == InitCorpus /\ [][NextCorpus]_vars

-----------------------------------------------------------------------------
(* C19 *)

\* the clauses of the texts, one text after the other
AllClauses(whole_data) == Concat(whole_data)

\* the places in that list of the clauses with exactly one root once cleaned
SingleRooted(clauses) ==
  Sorted({ i \in DOMAIN clauses : Len(clean_clause(clauses[i]).root_loc) = 1 })

\* C19: a clause whose root_loc has no entry or more than one is never given
\* a sketch: syntax_sketch called on it raises, and compute_sketches, which
\* raises nothing, skips it and returns one sketch for each other clause, in
\* order, and their number as its count: the clauses read less the invalid
C19_InvalidClausesGetNoSketch ==
  /\ (op = "syntax_sketch" /\ Len(T.root_loc) # 1) =>
       (tpc = "raised" /\ exc = "AssertionError")
  /\ (op = "compute_sketches") =>
       LET clauses == AllClauses(T)
           valid == SingleRooted(clauses)
           invalid == Len(clauses) - Len(valid)
       IN  /\ tpc = "returned"
           /\ Len(R.sketches) = Len(clauses) - invalid
           /\ R.clauses_count_total = Len(R.sketches)
           /\ R.sketches =
                [ k \in 1..Len(valid) |-> syntax_sketch(clean_clause(clauses[valid[k]]), TRUE).value ]

\* texts with a clause that has no root, a clause that has two and a clause
\* that has one: one sketch is returned
C19_Witness ==
  /\ tpc = "returned" /\ op = "compute_sketches"
  /\ \E i \in DOMAIN AllClauses(T) : Len(clean_clause(AllClauses(T)[i]).root_loc) = 0
  /\ \E i \in DOMAIN AllClauses(T) : Len(clean_clause(AllClauses(T)[i]).root_loc) > 1
  /\ Len(R.sketches) = 1
  /\ R.clauses_count_total = 1

-----------------------------------------------------------------------------
(* extract_sketches and remove_sketches on the same lists *)

\* largest amount asked for
MaxAmount == 2

\* the sketches asked for: of the verb alone, of the verb with its object,
\* and one no clause of the lists has
TargetSketches ==
  { <<"[", "V", "]">>,
    <<"[", "V", "]">> \o obj \o <<"(", "L", ")">>,
    <<"[", "S", "]">> }

\* amount: None or a number
Amounts == { <<>> } \cup { <<k>> : k \in 0..MaxAmount }

\* clause_dicts of up to MaxCorpus cleaned clauses, clause_conllus the text
\* of each, told apart by its place, with one text more where extra = 1
InitFilter ==
  /\ CutIdle
  /\ AtCall
  /\ \E n \in 0..MaxCorpus : \E clauses \in [1..n -> CorpusClauses], extra \in {0, 1} :
       T = [ clause_conllus |-> [ i \in 1..(n + extra) |-> i ],
             clause_dicts |-> [ i \in 1..n |-> clean_clause(clauses[i]) ] ]
  /\ L \in TargetSketches
  /\ B \in Amounts

\* the first call has returned and the other function was the one called
SecondCall(name) == tpc = "returned" /\ op # name

\* R = extract_sketches(T.clause_conllus, T.clause_dicts, L, B), or its
\* error, before or after the call of remove_sketches
CallExtractSketches ==
  /\ tpc = "call" \/ SecondCall("extract_sketches")
  /\ LET call == extract_sketches(T.clause_conllus, T.clause_dicts, L, B)
         heap == after_call(T, new_list(T), call.value)
     IN  /\ T' = heap.argument
         /\ IF call.raises # "none"
            THEN tpc' = "raised" /\ exc' = call.raises /\ UNCHANGED R
            ELSE /\ tpc' = (IF tpc = "call" THEN "returned" ELSE "returned2")
                 /\ R' = heap.returned
                 /\ UNCHANGED exc
  /\ op' = "extract_sketches"
  /\ UNCHANGED <<cutVars, L, B, R2>>

\* R2 = remove_sketches(T.clause_conllus, T.clause_dicts, L, B), or its
\* error, before or after the call of extract_sketches
CallRemoveSketches ==
  /\ tpc = "call" \/ SecondCall("remove_sketches")
  /\ LET call == remove_sketches(T.clause_conllus, T.clause_dicts, L, B)
         heap == after_call(T, new_list(T), call.value)
     IN  /\ T' = heap.argument
         /\ IF call.raises # "none"
            THEN tpc' = "raised" /\ exc' = call.raises /\ UNCHANGED R2
            ELSE /\ tpc' = (IF tpc = "call" THEN "returned" ELSE "returned2")
                 /\ R2' = heap.returned
                 /\ UNCHANGED exc
  /\ op' = "remove_sketches"
  /\ UNCHANGED <<cutVars, L, B, R>>

NextFilter ==
  \/ CallExtractSketches
  \/ CallRemoveSketches

SpecFilter == InitFilter /\ [][NextFilter]_vars

-----------------------------------------------------------------------------
(* C20 *)

\* list takes places of the lists of the clauses in ascending order: it is
\* the list of the texts at those places, dicts the list of their dicts
InInputOrder(lists, list, dicts) ==
  /\ Len(dicts) = Len(list)
  /\ \A k \in DOMAIN list :
       /\ list[k] \in DOMAIN lists.clause_dicts
       /\ dicts[k] = lists.clause_dicts[list[k]]
  /\ \A k \in 1..(Len(list) - 1) : list[k] < list[k + 1]

\* the two results share the clauses of the lists out between them
Partitions(lists, extracted, preserved) ==
  /\ Len(extracted[1]) + Len(preserved[1]) = Len(lists.clause_conllus)
  /\ Range(extracted[1]) \cup Range(preserved[1]) = DOMAIN lists.clause_conllus
  /\ Range(extracted[1]) \cap Range(preserved[1]) = {}
  /\ InInputOrder(lists, extracted[1], extracted[2])
  /\ InInputOrder(lists, preserved[1], preserved[2])
  /\ extracted[3] = Len(extracted[1])
  /\ preserved[3] = Len(extracted[1])

\* extracted holds the clauses of the target sketch, all of them or the
\* first amount of them
FirstMatches(lists, target_sketch, amount, extracted) ==
  LET matches == { i \in DOMAIN lists.clause_dicts :
                     syntax_sketch(lists.clause_dicts[i], TRUE).value = target_sketch }
      taken == Range(extracted[1])
  IN  /\ taken \subseteq matches
      /\ \A i \in taken, j \in matches \ taken : i < j
      /\ \/ taken = matches /\ (amount = <<>> \/ Cardinality(taken) <= amount[1])
         \/ amount # <<>> /\ Cardinality(taken) = amount[1]

-----------------------------------------------------------------------------
(* rand_group_sketches, called twice *)

\* largest number of sketches in the list passed to rand_group_sketches
MaxShuffle == 4

\* the seeds a call is given; 5 is the default
Seeds == {5, 7}

\* the lists of sketches passed: up to MaxShuffle different sketches, and
\* one list with a sketch that occurs twice
ShuffleLists ==
  { SubSeq(<<"a", "b", "c", "d", "e", "f">>, 1, k) : k \in 0..MaxShuffle }
    \cup { <<"a", "a", "b">> }

\* what _randbelow(i + 1) returns for i = len - 1 down to 1 when a list of
\* len items is shuffled: a number in 0..i, here the position j in 1..i of
\* the item that changes places with the one at position i
DrawVectors(len) == { d \in [2..len -> 1..len] : \A i \in 2..len : d[i] <= i }

\* x[i], x[j] = x[j], x[i]
swap(x, i, j) == [x EXCEPT ![i] = x[j], ![j] = x[i]]

\* rnd.shuffle(x) with the draws of rnd, for the items x[1..i] still to be
\* placed: the loop of Random.shuffle from i down to the second item
RECURSIVE shuffle(_, _, _)
shuffle(x, draws, i) ==
  IF i < 2 THEN x ELSE shuffle(swap(x, i, draws[i]), draws, i - 1)

\* result[sid % n].append(sketch) for every sid (lines 248-251): bucket k
\* holds the items at the 0-based indices k - 1, k - 1 + n, ... in order
round_robin(sketches, n) ==
  [ k \in 1..n |->
      [ j \in 1..((Len(sketches) - k) \div n + 1) |-> sketches[(j - 1) * n + k] ] ]

\* rand_group_sketches(sketches, n, seed), rnd the draws of Random(seed):
\* the list object as the call leaves it, and the buckets or the error
rand_group_sketches(sketches, n, rnd) ==
  IF ~(n <= Len(sketches))
  THEN [ raises |-> "ValueError", sketches |-> sketches, value |-> <<>> ]
  ELSE LET shuffled == shuffle(sketches, rnd, Len(sketches))
       IN  [ raises |-> "none", sketches |-> shuffled,
             value |-> round_robin(shuffled, n) ]

\* a list of sketches, a number of groups that fits it or not, and for
\* every seed the draws Random(seed) makes on a list of that length
InitShuffle ==
  /\ CutIdle
  /\ AtCall
  /\ \E given \in ShuffleLists :
       /\ T = [ sketches |-> given, given |-> given ]
       /\ B \in [Seeds -> DrawVectors(Len(given))]
  /\ L \in 1..(MaxShuffle + 1)

\* the call of rand_group_sketches(list, L, seed) on the caller's list T
\* ends: the list is as the shuffle left it, and held is the record of the
\* call
RandGroupCall(list, seed, held) ==
  LET call == rand_group_sketches(list, L, B[seed])
  IN  /\ T' = [T EXCEPT !.sketches = call.sketches]
      /\ IF call.raises # "none"
         THEN tpc' = "raised" /\ exc' = call.raises /\ held = NoGraph
         ELSE /\ tpc' = (IF tpc = "call" THEN "returned" ELSE "returned2")
              /\ held = [ seed |-> seed, sketches |-> call.sketches,
                          value |-> call.value ]
              /\ UNCHANGED exc

\* R = rand_group_sketches(sketches, L, seed)
CallRandGroupSketches ==
  /\ tpc = "call"
  /\ \E seed \in Seeds : RandGroupCall(T.sketches, seed, R')
  /\ op' = "first call"
  /\ UNCHANGED <<cutVars, L, B, R2>>

\* R2 = rand_group_sketches(sketches, L, seed), sketches being the list
\* object the first call was given
CallAgainWithSameList ==
  /\ tpc = "returned"
  /\ \E seed \in Seeds : RandGroupCall(T.sketches, seed, R2')
  /\ op' = "same list"
  /\ UNCHANGED <<cutVars, L, B, R>>

\* R2 = rand_group_sketches(list(given), L, seed): the second call is
\* given a new list of the items the first list had before the first call
CallAgainWithEqualList ==
  /\ tpc = "returned"
  /\ \E seed \in Seeds :
       LET call == rand_group_sketches(T.given, L, B[seed])
       IN  /\ tpc' = "returned2"
           /\ R2' = [ seed |-> seed, sketches |-> call.sketches,
                      value |-> call.value ]
  /\ op' = "equal list"
  /\ UNCHANGED <<cutVars, T, L, B, R, exc>>

NextShuffle ==
  \/ CallRandGroupSketches
  \/ CallAgainWithSameList
  \/ CallAgainWithEqualList

SpecShuffle == InitShuffle /\ [][NextShuffle]_vars

-----------------------------------------------------------------------------
(* C21 *)

\* how often x occurs in list
Count(list, x) == Cardinality({ i \in DOMAIN list : list[i] = x })

\* the buckets of a call hold every item of the list given exactly once,
\* the item at shuffled index i in bucket i mod n
SharedOut(given, call, n) ==
  /\ Len(call.value) = n
  /\ \A x \in Range(given) \cup Range(Concat(call.value)) :
       Count(Concat(call.value), x) = Count(given, x)
  /\ \A i \in 0..(Len(call.sketches) - 1) :
       \E j \in DOMAIN call.value[(i % n) + 1] :
          /\ j = i \div n + 1
          /\ call.value[(i % n) + 1][j] = call.sketches[i + 1]

\* a second call with the seed of the first, on a new list of the same
\* items, returns the buckets of the first
SameBucketsForEqualList ==
  (tpc = "returned2" /\ op = "equal list" /\ R.seed = R2.seed) => R2.value = R.value

\* every call that returns shares the items of its list out
EveryCallSharesOut ==
  /\ tpc \in {"returned", "returned2"} => SharedOut(T.given, R, L)
  /\ tpc = "returned2" => SharedOut(T.given, R2, L)

\* C21: two calls of rand_group_sketches with the same sketches, the same
\* n and the same seed return the same buckets, whether the second call is
\* given an equal list or the list object of the first call, and the
\* buckets of each call hold every item exactly once, the item at shuffled
\* index i in bucket i mod n
C21_SameSeedSameBuckets ==
  /\ EveryCallSharesOut
  /\ (tpc = "returned2" /\ R.seed = R2.seed) => R2.value = R.value

\* both calls returned with the same seed on the same list object, and the
\* second returned other buckets than the first
C21_SecondCallOnSameListDiffers ==
  /\ tpc = "returned2" /\ op = "same list" /\ R.seed = R2.seed
  /\ R2.value # R.value

-----------------------------------------------------------------------------
(* Cutter(kwargs) followed by cut *)

\* Cutter(kwargs) about to be called: the flags are at their class
\* defaults (lines 27-33), L is kwargs
InitCtor ==
  /\ tpc = "idle" /\ op = "none" /\ exc = "none"
  /\ T = NoGraph /\ B = "_" /\ R = NoGraph /\ R2 = NoGraph
  /\ L \in Kwargs
  /\ use_prefilter = TRUE /\ use_filter = TRUE /\ use_original_syntax = FALSE
  /\ pc = "new"
  /\ deprel = <<>>
  /\ uid = 0
  /\ G = NoGraph
  /\ deprel_origin = <<>> /\ nodes_diff = <<>> /\ text_origin = <<>>
  /\ text_short = <<>> /\ deprel_short = <<>>
  /\ stats = ZeroStats
  /\ wChanged = <<>> /\ wConserved = <<>> /\ wConstant = <<>> /\ wStats = <<>>
  /\ f_open = [ f \in Files |-> FALSE ]
  /\ f_opens = [ f \in Files |-> 0 ]
  /\ calls = <<>>
  /\ verdict = "none"
  /\ error = "none"

\* Cutter.__init__(kwargs), Reader and stanza_tagger given: the flags are
\* set from kwargs, or line 70 raises KeyError and there is no Cutter;
\* kwargs is a local of __init__ and is gone when it ends
Construct ==
  /\ pc = "new"
  /\ IF CtorRaises(L)
     THEN /\ error' = "KeyError"
          /\ pc' = "raised"
          /\ UNCHANGED flags
     ELSE /\ use_prefilter' = Cutter_init(L).use_prefilter
          /\ use_filter' = Cutter_init(L).use_filter
          /\ use_original_syntax' = Cutter_init(L).use_original_syntax
          /\ pc' = "ready"
          /\ UNCHANGED error
  /\ L' = <<>>
  /\ UNCHANGED <<tpc, op, T, B, R, R2, exc, deprel, uid, G, locals, stats,
                 outs, files, calls, verdict>>

NextCtor ==
  \/ Construct
  \/ Next

SpecCtor == InitCtor /\ [][NextCtor]_vars

-----------------------------------------------------------------------------
(* C22 *)

\* the step of cut that obtains the origin tree of the sentence G
ObtainsOrigin == pc = "origin" /\ pc' # "origin"

\* the origin tree of the step is the annotation G came with, and the
\* analyzer is not called
OriginIsCopy == calls' = calls /\ deprel_origin' = get_prop_deprel(G)

\* the origin tree of the step is what the analyzer makes of the text of G
OriginIsAnalysis == calls' = Append(calls, Join(get_prop_form(G)))

\* C22: the origin tree of cut is a copy of the annotation of the sentence
\* exactly when the Cutter was constructed with use_original_syntax true,
\* and the output of the analyzer on the text of the sentence otherwise,
\* whatever use_filter and use_prefilter are; the constructor does not
\* fail when only use_original_syntax is given
C22_OriginFollowsUseOriginalSyntax ==
  [][ /\ pc = "new" =>
           /\ (L.use_prefilter = "absent" /\ L.use_filter = "absent") => pc' = "ready"
           /\ pc' = "ready" =>
                (use_original_syntax' <=> L.use_original_syntax = "True")
      /\ ObtainsOrigin =>
           IF use_original_syntax THEN OriginIsCopy ELSE OriginIsAnalysis ]_vars

\* cut uses the flag as the constructor left it
OriginFollowsFlag ==
  [][ ObtainsOrigin =>
        IF use_original_syntax THEN OriginIsCopy ELSE OriginIsAnalysis ]_vars

\* what line 70 makes of kwargs: the flag is set exactly when
\* use_original_syntax is given, whatever its value, and use_filter is true
FlagAsConstructed ==
  [][ pc = "new" =>
        /\ pc' = "raised" <=>
             (L.use_original_syntax # "absent" /\ L.use_filter = "absent")
        /\ pc' = "ready" =>
             (use_original_syntax' <=>
                (L.use_original_syntax # "absent" /\ L.use_filter = "True")) ]_vars

-----------------------------------------------------------------------------
(* C23 *)

\* the forms of the tokens of tree that are not among removed, in id
\* order, joined by spaces
SurvivingText(tree, removed) ==
  LET ids == Sorted({ n \in tree.nodes : n # 0 /\ n \notin Range(removed) })
  IN  Join([ k \in 1..Len(ids) |-> tree.form[ids[k]] ])

\* text with its first character in upper case
FirstUpper(text) == [ k \in DOMAIN text |-> IF k = 1 THEN UpperChar(text[k]) ELSE text[k] ]

\* C23: the text cut hands to the analyzer for the re-analysis of a
\* sentence that is not CONSTANT is the forms of the surviving tokens in id
\* order joined by spaces, with its first character in upper case if node 1
\* is among the removed nodes and unchanged if node 1 survives
C23_ReanalysedTextIsCapitalisedSurvivors ==
  [][ /\ (pc = "origin" /\ pc' = "reanalyze") =>
           text_short' = IF 1 \in Range(nodes_diff')
                         THEN FirstUpper(SurvivingText(G, nodes_diff'))
                         ELSE SurvivingText(G, nodes_diff')
      /\ (pc = "reanalyze" /\ pc' # "reanalyze") =>
           calls' = Append(calls, text_short) ]_vars

\* the first token was removed from "Ei o ...": the analyzer was handed the
\* rest with a capital O
C23_Witness ==
  /\ pc = "next" /\ verdict \in {"conserved", "changed"}
  /\ 1 \in Range(nodes_diff)
  /\ text_origin[1] = "E"
  /\ calls[Len(calls)] = text_short
  /\ text_short[1] = "O"

\* the first token survived and a later one was removed: the analyzer was
\* handed the rest as it is, in lower case
C23_WitnessFirstSurvives ==
  /\ pc = "next" /\ verdict \in {"conserved", "changed"}
  /\ 1 \notin Range(nodes_diff) /\ nodes_diff # <<>>
  /\ calls[Len(calls)] = text_short
  /\ text_short[1] = "m"

-----------------------------------------------------------------------------
(* C24 *)

\* the number written to the stats file under key
Written(key) == { wStats[k][2] : k \in { j \in DOMAIN wStats : wStats[j][1] = key } }

\* the step of cut in which the cut of a checked sentence has removed
\* nodes and the sentence goes on to the re-analysis
CutRemovedNodes == pc = "origin" /\ pc' = "reanalyze"

\* C24: no_rem_dprels is a running total of the removed nodes: every cut of
\* a checked sentence adds the number of nodes it removed from the origin
\* tree, nothing else changes it once cut has zeroed it, the total is
\* written to the stats file, and it is positive when a sentence ended
\* CONSERVED or CHANGED
C24_RemovedNodesAreTotalled ==
  [][ /\ CutRemovedNodes =>
           stats'["no_rem_dprels"] = stats["no_rem_dprels"] + Len(nodes_diff')
      /\ (~CutRemovedNodes /\ pc \notin {"new", "ready"}) =>
           stats'["no_rem_dprels"] = stats["no_rem_dprels"]
      /\ pc' = "done" =>
           /\ Written("no_rem_dprels")' = { stats["no_rem_dprels"] }
           /\ (stats["syntax_conserved"] + stats["syntax_changed"] > 0) =>
                stats["no_rem_dprels"] > 0 ]_vars

\* a run in which a sentence ended CHANGED, so that its cut removed a node,
\* and which wrote 0 as the total of removed nodes
C24_ZeroWrittenAfterRemoval ==
  /\ pc = "done"
  /\ stats["syntax_changed"] >= 1
  /\ Written("no_rem_dprels") = {0}

\* what the code does: the counter is zeroed in line 147 and never added to
RemovedTotalStaysZero == stats["no_rem_dprels"] = 0

-----------------------------------------------------------------------------
(* clean_clause on its own *)

\* largest number of tokens of a clause passed to clean_clause
MaxCleanLen == 6

\* the words of a raw clause: a verb, a conjunction, a punctuation mark
RawWords ==
  { [ postag |-> <<"V">>, deprel |-> obj ],
    [ postag |-> <<"J">>, deprel |-> obj ],
    [ postag |-> <<"Z">>, deprel |-> iobj ] }

\* the heads of the n tokens of a clause, as positions 0..n+1 within it:
\* all under one position (0 and n + 1 are outside the clause), each under
\* the token before it, or each under the token after it
RawHeads(n) ==
  { [ i \in 1..n |-> k ] : k \in 0..(n + 1) }
    \cup { [ i \in 1..n |-> i - 1 ], [ i \in 1..n |-> i + 1 ] }

\* the clause of n tokens with the words and the heads that starts after
\* token first of its sentence; the word forms, lemmas and features are
\* told apart by their place
RawClause(n, words, heads, first) ==
  [ ids |-> [ i \in 1..n |-> first + i ],
    postags |-> [ i \in 1..n |-> words[i].postag ],
    deprels |-> [ i \in 1..n |-> words[i].deprel ],
    heads |-> [ i \in 1..n |-> first + heads[i] ],
    wordforms |-> [ i \in 1..n |-> <<"w", i>> ],
    lemmas |-> [ i \in 1..n |-> <<"l", i>> ],
    features |-> [ i \in 1..n |-> <<"f", i>> ] ]

\* clean_clause is called with a clause of up to MaxCleanLen tokens, the
\* empty clause included
InitClean ==
  /\ CutIdle
  /\ AtCall
  /\ \E n \in 0..MaxCleanLen :
       \E words \in [1..n -> RawWords], heads \in RawHeads(n), first \in {0, 1} :
         T = RawClause(n, words, heads, first)
  /\ L = <<>>
  /\ B = "_"

\* R = clean_clause(T): the vectors are copies (lines 50-57), the clause
\* is only read
CallCleanClause ==
  /\ tpc = "call"
  /\ Returns("clean_clause", after_call(T, new_list(T), clean_clause(T)))
  /\ UNCHANGED <<cutVars, L, B, R2, exc>>

NextClean == CallCleanClause

SpecClean == InitClean /\ [][NextClean]_vars

-----------------------------------------------------------------------------
(* C25 *)

\* the largest element of a set of numbers
SetMax(S) == CHOOSE x \in S : \A y \in S : y <= x

\* the tag of a conjunction or of a punctuation mark
Spurious(tag) == \E k \in DOMAIN tag : tag[k] \in {"J", "Z"}

\* the vectors of a clause
Vectors == {"ids", "postags", "deprels", "heads", "wordforms", "lemmas", "features"}

\* cleaned is the tokens from + 1 .. to of clause in every vector, with
\* the roots among them as root_loc
KeepsTokens(clause, cleaned, from, to) ==
  /\ DOMAIN cleaned = Vectors \cup {"root_loc"}
  /\ \A f \in Vectors :
       /\ Len(cleaned[f]) = to - from
       /\ \A k \in 1..(to - from) : cleaned[f][k] = clause[f][from + k]
  /\ \A k \in 0..(to - from - 1) :
       (\E j \in DOMAIN cleaned.root_loc : cleaned.root_loc[j] = k)
         <=> (\A j \in (from + 1)..to : clause.ids[j] # clause.heads[from + k + 1])
  /\ \A j \in DOMAIN cleaned.root_loc :
       /\ cleaned.root_loc[j] \in 0..(to - from - 1)
       /\ \A i \in DOMAIN cleaned.root_loc : i < j => cleaned.root_loc[i] < cleaned.root_loc[j]

\* C25: clean_clause returns the clause without the longest leading run and
\* the longest trailing run of conjunctions and punctuation marks, those
\* inside kept, all vectors of the same length and aligned token by token;
\* a clause of such tokens only gives empty vectors and an empty root_loc
\* and no error; root_loc is the indices of the kept tokens whose head is
\* not among the kept ids
C25_CleanClauseStripsBothEnds ==
  /\ tpc # "raised"
  /\ tpc = "returned" =>
       LET n == Len(T.postags)
           kept == { i \in 1..n : ~Spurious(T.postags[i]) }
       IN  IF kept = {}
           THEN R = [ f \in Vectors \cup {"root_loc"} |-> <<>> ]
           ELSE KeepsTokens(T, R, SetMin(kept) - 1, SetMax(kept))

\* a conjunction and a comma stripped in front, a comma stripped at the
\* end, the conjunction between the two verbs kept; the first verb is under
\* the stripped comma and so the root
C25_Witness ==
  /\ tpc = "returned"
  /\ T.postags = << <<"J">>, <<"Z">>, <<"V">>, <<"J">>, <<"V">>, <<"Z">> >>
  /\ R.postags = << <<"V">>, <<"J">>, <<"V">> >>
  /\ R.wordforms = << <<"w", 3>>, <<"w", 4>>, <<"w", 5>> >>
  /\ R.root_loc = <<0>>

-----------------------------------------------------------------------------
(* remove_deprel on the result of remove_deprel *)

\* largest number of tokens of a tree that is cut twice
MaxCutTwice == 3

\* the label lists of the two cuts: one label, a label twice, two labels
CutLists == << <<obj>>, <<iobj>>, <<obj, obj>>, <<iobj, obj>> >>

\* a graph of up to MaxCutTwice tokens with any heads and any relations,
\* and the label lists A = L[1] and B = L[2] of the two cuts
InitCutTwice ==
  /\ CutIdle
  /\ AtCall
  /\ \E n \in 1..MaxCutTwice :
       \E h \in [1..n -> 0..n], d \in [1..n -> Labels] : T = AnyGraph(n, h, d)
  /\ \E i \in DOMAIN CutLists : \E j \in i..Len(CutLists) : L = <<CutLists[i], CutLists[j]>>
  /\ B = "_"

\* R = remove_deprel(T, A) or R = remove_deprel(T, B)
CallRemoveDeprelFirst ==
  /\ tpc = "call"
  /\ \E first \in {1, 2} :
       /\ Returns("remove_deprel", after_call(T, copy(T), remove_deprel(T, L[first])))
       /\ B' = first
  /\ UNCHANGED <<cutVars, L, R2, exc>>

\* R2 = remove_deprel(R, B) or R2 = remove_deprel(R, A): the other list,
\* on the tree the first call returned
CallRemoveDeprelOnResult ==
  /\ tpc = "returned"
  /\ tpc' = "returned2"
  /\ R2' = after_call(R, copy(R), remove_deprel(R, L[3 - B])).returned
  /\ R' = after_call(R, copy(R), remove_deprel(R, L[3 - B])).argument
  /\ UNCHANGED <<cutVars, op, T, L, B, exc>>

NextCutTwice ==
  \/ CallRemoveDeprelFirst
  \/ CallRemoveDeprelOnResult

SpecCutTwice == InitCutTwice /\ [][NextCutTwice]_vars

-----------------------------------------------------------------------------
(* C26 *)

\* the elements of S as a list without repetitions
ListOf(S) == CHOOSE list \in [1..Cardinality(S) -> S] : Range(list) = S

\* C26: for a well-formed tree T and label lists A and B, cutting at A and
\* then the result at B, cutting at B and then the result at A, and cutting
\* T once at A and B together all give the same tree; so cutting twice at A
\* gives what cutting once at A gives, and a label list with repetitions
\* gives what the list without them gives
C26_CutsCompose ==
  (tpc = "returned2" /\ IsTree(T)) =>
    /\ R2 = remove_deprel(T, L[1] \o L[2])
    /\ R2 = remove_deprel(T, ListOf(Range(L[1]) \cup Range(L[2])))

\* a tree of three tokens, cut at obj and then at iobj: each cut removed a
\* token and one token is left
C26_Witness ==
  /\ tpc = "returned2" /\ IsTree(T) /\ B = 1
  /\ L = << <<obj>>, <<iobj>> >>
  /\ Cardinality(T.nodes) = 4
  /\ Cardinality(R.nodes) = 3
  /\ Cardinality(R2.nodes) = 2

-----------------------------------------------------------------------------
(* The while loop of remove_brackets, pass by pass *)

\* largest number of tokens of a sentence passed to remove_brackets
MaxBracketLen == 5

\* the forms of its tokens: the two brackets and a word
BracketForms == { <<"(">>, <<")">>, <<"x">> }

\* the graph of a sentence with the forms, each token under the one before
BracketSentence(forms) ==
  SentenceGraph([ form |-> forms,
                  head |-> [ i \in DOMAIN forms |-> i - 1 ],
                  deprel |-> [ i \in DOMAIN forms |-> obj ] ])

\* the loop without line 138: leftNodes1 stays what it was
left_nodes_kept(leftNodes1, leftNodes2) == leftNodes1

\* leftNodes1 = leftNodes2.copy()  (line 138)
left_nodes_copy(leftNodes1, leftNodes2) == leftNodes2

\* remove_brackets is called with the graph of a sentence of up to
\* MaxBracketLen tokens, or with a graph without nodes
InitBrackets ==
  /\ CutIdle
  /\ AtCall
  /\ \/ \E n \in 0..MaxBracketLen : \E forms \in [1..n -> BracketForms] :
          T = BracketSentence(forms)
     \/ T = NoGraph
  /\ L = <<>>
  /\ B = "_"

\* lines 127-136: G is a copy of inputG; the locals of the loop
EnterRemoveBrackets ==
  /\ tpc = "call"
  /\ tpc' = "while"
  /\ L' = [ leftNodes1 |-> <<>>, leftNodes2 |-> Sorted(T.nodes),
            nodes_to_remove |-> <<>> ]
  /\ UNCHANGED <<cutVars, op, T, B, R, R2, exc>>

\* lines 137-168: the test of the while loop holds and its body is run once
BracketPass ==
  /\ tpc = "while"
  /\ Len(L.leftNodes1) # Len(L.leftNodes2)
  /\ LET remove == bracket_pass(T, L.leftNodes2, FALSE, <<>>)
     IN  L' = [ leftNodes1 |-> left_nodes_copy(L.leftNodes1, L.leftNodes2),
                leftNodes2 |-> list_without(L.leftNodes2, remove),
                nodes_to_remove |-> L.nodes_to_remove \o remove ]
  /\ UNCHANGED <<cutVars, tpc, op, T, B, R, R2, exc>>

\* lines 137, 170-173: the test of the while loop fails, the nodes
\* collected are removed from the copy and the copy is returned
LeaveBracketLoop ==
  /\ tpc = "while"
  /\ Len(L.leftNodes1) = Len(L.leftNodes2)
  /\ Returns("remove_brackets",
             after_call(T, copy(T), remove_nodes(T, L.nodes_to_remove)))
  /\ UNCHANGED <<cutVars, L, B, R2, exc>>

NextBrackets ==
  \/ EnterRemoveBrackets
  \/ BracketPass
  \/ LeaveBracketLoop

\* a call that has begun runs on: no step of it waits for anything
SpecBrackets == InitBrackets /\ [][NextBrackets]_vars /\ WF_vars(NextBrackets)

-----------------------------------------------------------------------------
(* C27 *)

\* the number of nodes the pass of this step takes from leftNodes2
RemovedByPass == Len(L.leftNodes2) - Len(L'.leftNodes2)

\* the loop, pass by pass, returns what remove_brackets returns
LoopGivesRemoveBrackets == tpc = "returned" => R = remove_brackets(T)

\* C27: the loop of remove_brackets ends on every sentence, whatever the
\* arrangement of its brackets: every pass removes at least two tokens or
\* none, a pass that removes none ends the loop, and the call returns
C27_BracketLoopTerminates ==
  /\ [][ (tpc = "while" /\ tpc' = "while") =>
           /\ RemovedByPass = 0 \/ RemovedByPass >= 2
           /\ RemovedByPass = 0 => Len(L'.leftNodes1) = Len(L'.leftNodes2) ]_vars
  /\ <>(tpc = "returned")

\* "( ( ) ) (": the inner pair went in the first pass, the outer pair in
\* the second, the third pass removed nothing and the call returned with
\* the bracket that is not closed
C27_Witness ==
  /\ tpc = "returned"
  /\ L.nodes_to_remove = <<2, 3, 1, 4>>
  /\ R.nodes = {0, 5}
  /\ R.form[5] = <<"(">>

====
